---- MODULE Spec2Model ----
(***************************************************************************)
(* A model of the StockSeek desktop application (src/main.py and           *)
(* src/chart_window.py): the acquisition pipeline (fetch_data), the        *)
(* day tables of the embedded database, the aggregation query, the         *)
(* enrichment worker pool (StockDataProcessor.process) and the K-line      *)
(* window registry.                                                        *)
(*                                                                         *)
(* Stock codes are sequences of decimal digits.  A day table is a record   *)
(* [exists, rows] whose rows form a bag (SQL tables are multisets).  The   *)
(* time and name columns of a tick are left out: the feed gives one name   *)
(* per code, so GROUP BY (code, name) groups by code.                      *)
(***************************************************************************)
EXTENDS Integers, Sequences, FiniteSets, Bags, TLC

\* ------------------------------------------------------------------ bounds
\* largest number of tick rows one feed pull returns
MaxTicks == 2
\* threads the enrichment pool may run at once (Config.MAX_DATA_WORKERS is 10)
MaxWorkers == 2
\* longest stock list handed to process() in the processor harness
MaxStocks == 11
\* most per-stock lookups that fail within one process() call of the harness
MaxFail == 2
\* concurrent process() calls the processor state is laid out for
NumCalls == 2
\* K-line windows created in one behaviour
MaxWindows == 2
\* longest string over MixChars given to the helpers of utils.py
MaxMix == 3
\* span of days, after the first week, the trading date is computed for
MaxDay == 13
\* longest announcement list written by the user, in lines of the text box
MaxAnn == 2
\* longest response stream of the AI service
MaxDeltas == 3
\* longest stock list of each of two overlapping process() calls
MaxOverlap == 2
\* + clicks above the default a filter control is followed for
MaxPlus == 3
\* full batches of the largest frame handed to the grid
MaxBatches == 2
\* update_data calls made on the grid by its harness
MaxUpdates == 2
\* grid timers pending at once
MaxPending == 2
\* loading-animation timer chains alive at once
MaxChains == 2

\* -------------------------------------------------------- program constants
\* main.py:460  processed_count % 10
ProgressEvery == 10
\* main.py:284  SUM(amount) / 10000
AmountUnit == 10000
\* main.py:945  amount_var default
DefaultMinAmount == 2000
\* main.py:946  market_cap_var default
DefaultMaxMarketCap == 2000

\* main.py:39  Config.BATCH_SIZE
BATCH_SIZE == 100
\* main.py:998  _adjust_amount(200) and main.py:985 _adjust_amount(-200)
AmountStep == 200
\* main.py:1019  _adjust_market_cap(50) and main.py:1006 _adjust_market_cap(-50)
MarketCapStep == 50
\* main.py:1205  animation_angle // 60
SectorAngle == 60
\* main.py:1207  (animation_angle + 30) % 360
AngleStep == 30
FullTurn == 360
\* main.py:1222  after(10, ...) and main.py:1293 after(20, ...)
ContentDelay == 10
BatchDelay == 20

\* process_stock returns a row or None: a result is a set of at most one row
None == {}
\* nobody holds the lock
Free == <<0, 0>>

Calls == 1..NumCalls

\* ------------------------------------------------------------- input sets
Code600000 == <<6, 0, 0, 0, 0, 0>>
Code000001 == <<0, 0, 0, 0, 0, 1>>
Code300750 == <<3, 0, 0, 7, 5, 0>>

\* the codes the feed reports, in a fixed listing order
CodeOrder == <<Code600000, Code000001, Code300750>>
Codes == {CodeOrder[i] : i \in 1..Len(CodeOrder)}

\* the total market value the fundamentals feed reports for a code, in units of
\* 1e6 yuan (a yuan figure does not fit a 32-bit integer): 2001.99 x 1e8 yuan
\* for 600000, 2000 x 1e8 yuan for every other code
FeedCapOf(code) == IF code = Code600000 THEN 200199 ELSE 200000
\* 1e8 yuan in that unit (main.py:405 divides the yuan figure by 100000000)
CapUnit == 100

\* the tick values the feed draws from
TickValues ==
    { [code |-> Code600000, amount |-> 150000],
      [code |-> Code600000, amount |-> 250000],
      [code |-> Code000001, amount |-> 25009000],
      [code |-> Code300750, amount |-> 150000] }

\* filter parameters the aggregation query is examined with
MinAmounts == {30, 40, 41, DefaultMinAmount, 2500}
MaxMarketCaps == {1999, 2000, DefaultMaxMarketCap + 1}

RECURSIVE BagsUpTo(_)
BagsUpTo(n) ==
    IF n = 0 THEN {EmptyBag}
    ELSE LET prev == BagsUpTo(n - 1)
         IN  prev \cup {b (+) SetToBag({v}) : b \in prev, v \in TickValues}

FeedBatches == BagsUpTo(MaxTicks)

\* the i-th synthetic code of the processor harness: 6000ab, all Shanghai main board
SynthCode(i) == <<6, 0, 0, 0, i \div 10, i % 10>>

\* ------------------------------------------------- Utils.get_stock_info
IsDigits(s) == Len(s) > 0 /\ \A i \in 1..Len(s) : s[i] \in 0..9

\* str.zfill(6) for strings shorter than 7 characters
Zfill6(s) ==
    IF Len(s) < 7
    THEN [i \in 1..(IF Len(s) < 6 THEN 6 ELSE Len(s)) |->
             IF Len(s) < 6 /\ i <= 6 - Len(s) THEN 0
             ELSE s[i - (IF Len(s) < 6 THEN 6 - Len(s) ELSE 0)]]
    ELSE s

Prefix(s, n) == SubSeq(s, 1, IF Len(s) < n THEN Len(s) ELSE n)

\* 900 is counted among the Beijing prefixes
BJ3aWith900 ==
    {<<4,3,0>>, <<8,3,1>>, <<8,3,2>>, <<8,3,3>>, <<8,3,4>>, <<8,3,5>>,
     <<8,3,6>>, <<8,3,7>>, <<8,3,8>>, <<8,3,9>>, <<9,0,0>>}
BJ3a == {<<4,3,0>>, <<8,3,1>>, <<8,3,2>>, <<8,3,3>>, <<8,3,4>>, <<8,3,5>>,
         <<8,3,6>>, <<8,3,7>>, <<8,3,8>>, <<8,3,9>>}

get_stock_info(stock_code) ==
    IF ~IsDigits(stock_code) THEN <<"unknown", "NON_DIGIT">>
    ELSE LET code == Zfill6(stock_code)
             prefix2 == Prefix(code, 2)
             prefix3 == Prefix(code, 3)
         IN  IF prefix3 = <<9,2,0>> \/ prefix3 \in BJ3a THEN <<"bj", "BSE">>
             ELSE IF prefix3 \in {<<4,0,0>>, <<4,3,0>>, <<8,3,0>>}
                     \/ prefix2 \in {<<8,7>>, <<8,3>>} THEN <<"bj", "BSE">>
             ELSE IF code[1] = 8 /\ prefix3 # <<9,2,0>> THEN <<"bj", "BSE">>
             ELSE IF prefix3 \in {<<6,0,0>>, <<6,0,1>>, <<6,0,3>>, <<6,0,5>>}
                  THEN <<"sh", "SH_MAIN">>
             ELSE IF prefix3 = <<6,8,8>> THEN <<"sh", "STAR">>
             ELSE IF prefix3 = <<9,0,0>> THEN <<"sh", "SH_B">>
             ELSE IF prefix3 \in {<<0,0,0>>, <<0,0,1>>, <<0,0,2>>, <<0,0,3>>, <<0,0,4>>}
                  THEN <<"sz", "SZ_MAIN">>
             ELSE IF prefix3 \in {<<3,0,0>>, <<3,0,1>>} THEN <<"sz", "CHINEXT">>
             ELSE IF prefix2 = <<2,0>> THEN <<"sz", "SZ_B">>
             ELSE <<"unknown", "OTHER">>

\* ------------------------------------------------------------ bag helpers
RECURSIVE SumCopies(_, _)
\* number of rows of bag B among the row values S
SumCopies(B, S) ==
    IF S = {} THEN 0
    ELSE LET r == CHOOSE x \in S : TRUE
         IN  CopiesIn(r, B) + SumCopies(B, S \ {r})

RECURSIVE SumAmounts(_, _)
\* SUM(amount) over the rows of bag B among the row values S
SumAmounts(B, S) ==
    IF S = {} THEN 0
    ELSE LET r == CHOOSE x \in S : TRUE
         IN  CopiesIn(r, B) * r.amount + SumAmounts(B, S \ {r})

RowsOfCode(B, c) == {r \in BagToSet(B) : r.code = c}

NoTable == [exists |-> FALSE, rows |-> EmptyBag]
Table(B) == [exists |-> TRUE, rows |-> B]

\* ---------------------------------------------------------------- state
VARIABLES
    ticksTbl,        \* table stock_changes_{today}
    snapTbl,         \* table stock_real_data_{today}
    pc,              \* position of the fetch_data thread
    batch,           \* stock_changes_em_df of the running fetch_data
    current_df,      \* StockVisualizationApp.current_df
    status_label,    \* text of the status label, by kind
    widgetWrites,    \* which thread has mutated which widget
    ppc,             \* per process() call: none / called / running / returned
    stock_list,      \* per call: stock_info_list
    task,            \* per call: per submitted task [st, result]
    results,         \* per call: the returned list, as a bag of rows
    callbacks,       \* per call: the progress_callback invocations, in order
    processed_count, \* StockDataProcessor.processed_count
    failed_count,    \* StockDataProcessor.failed_count
    lock,            \* holder of StockDataProcessor.lock: <<call, task>> or Free
    kline_windows,   \* StockVisualizationApp.kline_windows: key -> window, 0 = no entry
    win,             \* the KLineWindow objects created so far
    nextWin,         \* how many KLineWindow objects were created
    focused,         \* the window show_k_line lifted and focused last, 0 = none
    call,            \* a call of a helper of utils.py / of the trading date: [fn, arg, ret]
    config_file,     \* config.json: [state, announcements, api_key]
    cfg_last,        \* the last config_manager call: [fn, ret]
    client,          \* ai_service.client: "none" or "built"
    ai,              \* the ai_service call in progress or returned
    ann,             \* the announcement bar: its list, index, label and rotation so far
    amount_var,      \* ControlPanel.amount_var, as a number
    market_cap_var,  \* ControlPanel.market_cap_var, as a number
    tree,            \* DataTable.tree: the rows of the grid, in order
    loading,         \* whether DataTable.loading_frame is placed
    loading_icon,    \* the glyph of DataTable.loading_icon
    animation_angle, \* DataTable.animation_angle
    loading_animation_id, \* whether DataTable.loading_animation_id holds a timer id
    anim_timers,     \* pending `animate` timers
    timers,          \* pending _update_table_content / _insert_data_batch timers
    upd,             \* the grid update started last: its frame and what was inserted
    last_load,       \* the last load_filtered_data call of load_data: its result
    event            \* the GUI handler that ran last: [op, outcome, reloads]

dbVars == <<ticksTbl, snapTbl>>
runVars == <<pc, batch, current_df>>
uiVars == <<status_label, widgetWrites>>
procVars == <<ppc, stock_list, task, results, callbacks, processed_count, failed_count, lock>>
kVars == <<kline_windows, win, nextWin, focused>>
cfgVars == <<config_file, cfg_last>>
aiVars == <<client, ai>>
auxVars == <<call, cfgVars, aiVars>>
panelVars == <<amount_var, market_cap_var>>
tableVars == <<tree, loading, loading_icon, animation_angle, loading_animation_id,
               anim_timers, timers, upd>>
guiVars == <<ann, panelVars, tableVars, last_load, event>>
appVars == <<dbVars, runVars, uiVars, procVars>>
vars == <<appVars, kVars, auxVars, guiVars>>

\* ------------------------------------------------------ DatabaseManager
\* outcomes of the DELETE statement: it succeeds, or raises OperationalError
\* (no such table when the table is absent; otherwise e.g. database is locked)
ClearOutcomes(tbl) == IF tbl.exists THEN {"ok", "op_error"} ELSE {"no_table"}
WriteOutcomes == {"ok", "error"}

\* the table as the open transaction sees it after the try/except around DELETE
AfterDelete(tbl, clear) == IF clear = "ok" THEN Table(EmptyBag) ELSE tbl

save_stock_changes(tbl, df, clear, append) ==
    IF append = "ok"
    THEN Table(AfterDelete(tbl, clear).rows (+) df)   \* to_sql(if_exists='append'), commit
    ELSE tbl                                          \* to_sql raised: rollback

save_stock_real_data(tbl, df, clear, write) ==
    IF write = "ok"
    THEN Table(df)                                    \* to_sql(if_exists='replace'), commit
    ELSE tbl                                          \* to_sql raised: rollback

\* WHERE a.code = b.code AND b.market_cap <= max_market_cap
WhereClause(a, b, max_market_cap) ==
    a.code = b.code /\ b.market_cap <= max_market_cap

\* CAST(SUM(a.amount) / 10000 AS INTEGER)
TotalAmount(sum) == sum \div AmountUnit

\* HAVING total_amount >= min_amount
HavingClauseInclusive(total_amount, min_amount) == total_amount >= min_amount
\* HAVING total_amount > min_amount
HavingClause(total_amount, min_amount) == total_amount > min_amount

\* the rows of one GROUP BY group: the ticks of code c joined to the snapshot
\* rows that pass the WHERE clause
GroupRow(ticks, snap, c, max_market_cap) ==
    LET a == RowsOfCode(ticks, c)
        b == {s \in BagToSet(snap) :
                 \E t \in a : WhereClause(t, s, max_market_cap)}
        nb == SumCopies(snap, b)
    IN  [code |-> c,
         market_cap |-> IF b = {} THEN 0 ELSE (CHOOSE s \in b : TRUE).market_cap,
         trade_count |-> SumCopies(ticks, a) * nb,
         total_amount |-> TotalAmount(SumAmounts(ticks, a) * nb)]

load_filtered_data(ticks, snap, min_amount, max_market_cap) ==
    IF ~ticks.exists \/ ~snap.exists
    THEN [raised |-> TRUE, rows |-> {}]               \* no such table
    ELSE [raised |-> FALSE,
          rows |-> {g \in {GroupRow(ticks.rows, snap.rows, c, max_market_cap) :
                              c \in {t.code : t \in BagToSet(ticks.rows)}} :
                       g.trade_count > 0 /\ HavingClause(g.total_amount, min_amount)}]

\* ------------------------------------------------- StockDataProcessor
\* the row process_stock builds from the feeds' answers
RowOf(code) == [code |-> code, market_cap |-> FeedCapOf(code) \div CapUnit]

Tasks(c) == DOMAIN task[c]
InFlight(c) == {i \in Tasks(c) : task[c][i].st \in {"got", "counted"}}
FailedLookups(c) == {i \in Tasks(c) : task[c][i].st # "queued" /\ task[c][i].result = None}
\* the executor shut down without waiting for the running tasks
AllStarted(c) == \A i \in Tasks(c) : task[c][i].st # "queued"
AllDone(c) == \A i \in Tasks(c) : task[c][i].st = "done"

RECURSIVE CollectRows(_, _)
\* the non-None results of the tasks S of call c, as a bag
CollectRows(c, S) ==
    IF S = {} THEN EmptyBag
    ELSE LET i == CHOOSE x \in S : TRUE
             rest == CollectRows(c, S \ {i})
         IN  IF task[c][i].result = None THEN rest
             ELSE rest (+) SetToBag(task[c][i].result)

\* process(): entry, up to the submission of every task to the executor
ProcessStart(c) ==
    /\ ppc[c] = "called"
    /\ ppc' = [ppc EXCEPT ![c] = "running"]
    /\ processed_count' = 0
    /\ failed_count' = 0
    /\ task' = [task EXCEPT ![c] =
                   [i \in 1..Len(stock_list[c]) |-> [st |-> "queued", result |-> None]]]
    /\ results' = [results EXCEPT ![c] = EmptyBag]
    /\ callbacks' = [callbacks EXCEPT ![c] = <<>>]
    /\ UNCHANGED <<guiVars, auxVars, kVars, dbVars, runVars, uiVars, stock_list, lock>>

\* a pool thread takes the next queued task and runs process_stock for it
Lookup(c, i) ==
    /\ ppc[c] = "running"
    /\ i \in Tasks(c)
    /\ task[c][i].st = "queued"
    /\ \A j \in Tasks(c) : j < i => task[c][j].st # "queued"
    /\ Cardinality(InFlight(c)) < MaxWorkers
    /\ \/ task' = [task EXCEPT ![c][i] =
                      [st |-> "got", result |-> {RowOf(stock_list[c][i])}]]
       \/ /\ Cardinality(FailedLookups(c)) < MaxFail
          /\ task' = [task EXCEPT ![c][i] = [st |-> "got", result |-> None]]
    /\ UNCHANGED <<guiVars, auxVars, kVars, dbVars, runVars, uiVars, ppc, stock_list, results,
                   callbacks, processed_count, failed_count, lock>>

\* the failure is not counted
CountNoFailure(c, i) ==
    /\ i \in Tasks(c)
    /\ task[c][i].st = "got"
    /\ lock = Free
    /\ lock' = <<c, i>>
    /\ processed_count' = processed_count + 1
    /\ task' = [task EXCEPT ![c][i].st = "counted"]
    /\ UNCHANGED <<guiVars, auxVars, kVars, dbVars, runVars, uiVars, ppc, stock_list, results, callbacks,
                   failed_count>>

\* process_with_progress: with self.lock, the two counters
Count(c, i) ==
    /\ i \in Tasks(c)
    /\ task[c][i].st = "got"
    /\ lock = Free
    /\ lock' = <<c, i>>
    /\ processed_count' = processed_count + 1
    /\ failed_count' = IF task[c][i].result = None THEN failed_count + 1 ELSE failed_count
    /\ task' = [task EXCEPT ![c][i].st = "counted"]
    /\ UNCHANGED <<guiVars, auxVars, kVars, dbVars, runVars, uiVars, ppc, stock_list, results, callbacks>>

\* the callback only every ProgressEvery completions
ProgressDueNoFinal(processed, total_stocks) == processed % ProgressEvery = 0
\* the condition under which process_with_progress calls progress_callback
ProgressDue(processed, total_stocks) ==
    processed % ProgressEvery = 0 \/ processed = total_stocks

\* process_with_progress: still inside the lock, the progress callback
\* (fetch_data.progress_callback sets the status label); then the lock is
\* released and the task returns its result
Progress(c, i) ==
    /\ i \in Tasks(c)
    /\ task[c][i].st = "counted"
    /\ lock = <<c, i>>
    /\ IF ProgressDue(processed_count, Len(stock_list[c]))
       THEN /\ callbacks' = [callbacks EXCEPT ![c] =
                   Append(@, <<processed_count, Len(stock_list[c]), failed_count>>)]
            /\ status_label' = "progress"
            /\ widgetWrites' = widgetWrites \cup {[widget |-> "status_label", by |-> "worker"]}
       ELSE UNCHANGED <<callbacks, uiVars>>
    /\ lock' = Free
    /\ task' = [task EXCEPT ![c][i].st = "done"]
    /\ UNCHANGED <<guiVars, auxVars, kVars, dbVars, runVars, ppc, stock_list, results,
                   processed_count, failed_count>>

\* process(): the executor has shut down, as_completed has yielded every future
ProcessReturn(c) ==
    /\ ppc[c] = "running"
    /\ AllDone(c)
    /\ ppc' = [ppc EXCEPT ![c] = "returned"]
    /\ results' = [results EXCEPT ![c] = CollectRows(c, Tasks(c))]
    /\ UNCHANGED <<guiVars, auxVars, kVars, dbVars, runVars, uiVars, stock_list, task, callbacks,
                   processed_count, failed_count, lock>>

ProcessorNext ==
    \E c \in Calls :
        \/ ProcessStart(c)
        \/ \E i \in 1..MaxStocks : Lookup(c, i)
        \/ \E i \in 1..MaxStocks : Count(c, i)
        \/ \E i \in 1..MaxStocks : Progress(c, i)
        \/ ProcessReturn(c)

\* ------------------------------------------- StockVisualizationApp.fetch_data
RECURSIVE Repeat(_, _)
Repeat(x, n) == IF n = 0 THEN <<>> ELSE <<x>> \o Repeat(x, n - 1)

RECURSIVE CodeColumn(_, _)
\* the code column of df, one entry per row, from listing position k on
CodeColumn(df, k) ==
    IF k > Len(CodeOrder) THEN <<>>
    ELSE Repeat(CodeOrder[k], SumCopies(df, RowsOfCode(df, CodeOrder[k])))
           \o CodeColumn(df, k + 1)

\* the duplicates are kept
KeepDuplicates(s) == s
RECURSIVE drop_duplicates(_)
\* keep the first occurrence of every code
drop_duplicates(s) ==
    IF s = <<>> THEN <<>>
    ELSE LET front == drop_duplicates(SubSeq(s, 1, Len(s) - 1))
             last == s[Len(s)]
         IN  IF \E i \in 1..Len(front) : front[i] = last THEN front
             ELSE Append(front, last)

filter_stocks(code) ==
    LET info == get_stock_info(code)
    IN  ~(info[1] = "bj" \/ info[2] = "STAR" \/ info[2] = "CHINEXT")

\* stock_list of fetch_data: distinct codes of the batch that pass the filter
StockList(df) == SelectSeq(drop_duplicates(CodeColumn(df, 1)), filter_stocks)

ByWorker(widget) == [widget |-> widget, by |-> "worker"]
ByUI(widget) == [widget |-> widget, by |-> "ui"]

\* the refresh button (or the start-up dialog) starts fetch_data on a new
\* thread; here only when no run is in progress.  The locals of the finished
\* run are dropped.
StartRun ==
    /\ pc \in {"idle", "done"}
    /\ pc' = "feed"
    /\ batch' = EmptyBag
    /\ ppc' = [ppc EXCEPT ![1] = "none"]
    /\ stock_list' = [stock_list EXCEPT ![1] = <<>>]
    /\ task' = [task EXCEPT ![1] = <<>>]
    /\ results' = [results EXCEPT ![1] = EmptyBag]
    /\ callbacks' = [callbacks EXCEPT ![1] = <<>>]
    /\ UNCHANGED <<guiVars, auxVars, kVars, dbVars, current_df, uiVars, processed_count, failed_count, lock>>

\* the day's tick table is emptied before the feed is pulled
FetchFeedClearing ==
    /\ pc = "feed"
    /\ widgetWrites' = widgetWrites \cup {ByWorker("status_label")}
    /\ ticksTbl' = AfterDelete(ticksTbl, "ok")
    /\ \/ \E df \in FeedBatches \ {EmptyBag} :
             /\ batch' = df
             /\ pc' = "save_ticks"
             /\ status_label' = "fetching"
       \/ /\ pc' = "done"
          /\ status_label' = "error"
          /\ UNCHANGED batch
    /\ UNCHANGED <<guiVars, auxVars, kVars, snapTbl, current_df, procVars>>

\* ak.stock_changes_em and the reshaping of its frame; an empty frame makes the
\* column assignment raise, like a failing feed call
FetchFeed ==
    /\ pc = "feed"
    /\ widgetWrites' = widgetWrites \cup {ByWorker("status_label")}
    /\ \/ \E df \in FeedBatches \ {EmptyBag} :
             /\ batch' = df
             /\ pc' = "save_ticks"
             /\ status_label' = "fetching"
       \/ /\ pc' = "done"
          /\ status_label' = "error"
          /\ UNCHANGED batch
    /\ UNCHANGED <<guiVars, auxVars, kVars, dbVars, current_df, procVars>>

\* self.db_manager.save_stock_changes(stock_changes_em_df, current_date); when
\* it raises, the except handler ends the run and the frame is gone.
\* A clear that fails on an existing table is only drawn while the table holds
\* at most one batch, which keeps the table finite.
SaveTicks ==
    /\ pc = "save_ticks"
    /\ widgetWrites' = widgetWrites \cup {ByWorker("status_label")}
    /\ \E clear \in ClearOutcomes(ticksTbl), append \in WriteOutcomes :
          /\ clear = "op_error" => BagCardinality(ticksTbl.rows (+) batch) <= MaxTicks + 1
          /\ ticksTbl' = save_stock_changes(ticksTbl, batch, clear, append)
          /\ IF append = "ok"
             THEN pc' = "filter" /\ status_label' = "saving_ticks" /\ UNCHANGED batch
             ELSE pc' = "done" /\ status_label' = "error" /\ batch' = EmptyBag
    /\ UNCHANGED <<guiVars, auxVars, kVars, snapTbl, current_df, procVars>>

\* the stock list is extracted and filtered, and process() is called
FilterStocks ==
    /\ pc = "filter"
    /\ stock_list' = [stock_list EXCEPT ![1] = StockList(batch)]
    /\ ppc' = [ppc EXCEPT ![1] = "called"]
    /\ pc' = "enrich"
    /\ status_label' = "enriching"
    /\ widgetWrites' = widgetWrites \cup {ByWorker("status_label")}
    /\ UNCHANGED <<guiVars, auxVars, kVars, dbVars, batch, current_df, task, results, callbacks,
                   processed_count, failed_count, lock>>

\* if real_data_list: save_stock_real_data, _save_to_excel (its failure is
\* swallowed and changes nothing here)
SaveRealData ==
    /\ pc = "enrich"
    /\ ppc[1] = "returned"
    /\ results[1] # EmptyBag
    /\ widgetWrites' = widgetWrites \cup {ByWorker("status_label")}
    /\ \E clear \in ClearOutcomes(snapTbl), write \in WriteOutcomes :
          /\ snapTbl' = save_stock_real_data(snapTbl, results[1], clear, write)
          /\ IF write = "ok"
             THEN pc' = "reload" /\ status_label' = "saving_real"
             ELSE pc' = "done" /\ status_label' = "error"
    /\ UNCHANGED <<guiVars, auxVars, kVars, ticksTbl, batch, current_df, procVars>>

\* else: nothing is written, the status says that no data was obtained
NoData ==
    /\ pc = "enrich"
    /\ ppc[1] = "returned"
    /\ results[1] = EmptyBag
    /\ pc' = "done"
    /\ status_label' = "no_data"
    /\ widgetWrites' = widgetWrites \cup {ByWorker("status_label")}
    /\ UNCHANGED <<guiVars, auxVars, kVars, dbVars, batch, current_df, procVars>>

\* load_data(), called by fetch_data on its own thread with the control
\* panel's filter parameters, then the final status of fetch_data
LoadData ==
    /\ pc = "reload"
    /\ LET full_df == load_filtered_data(ticksTbl, snapTbl,
                                         DefaultMinAmount, DefaultMaxMarketCap)
       IN  IF ~full_df.raised /\ full_df.rows # {}
           THEN /\ current_df' = full_df.rows
                /\ widgetWrites' = widgetWrites \cup
                                     {ByWorker("status_label"), ByWorker("data_table")}
           ELSE /\ UNCHANGED current_df
                /\ widgetWrites' = widgetWrites \cup {ByWorker("status_label")}
    /\ status_label' = "done_ok"
    /\ pc' = "done"
    /\ UNCHANGED <<guiVars, auxVars, kVars, dbVars, batch, procVars>>

PipelineNext ==
    \/ StartRun
    \/ FetchFeed
    \/ SaveTicks
    \/ FilterStocks
    \/ SaveRealData
    \/ NoData
    \/ LoadData

\* ------------------------------------------------ KLineWindow, show_k_line
\* the registry keys "{code}_{name}" of the stocks the user may select
Keys == {"600000_PFYH", "000001_PAYH"}
Windows == 1..MaxWindows

\* a window: fetch counts its fetch_data_async threads that have not put
\* their result yet, poll its pending check_result timers
NoWindow == [key |-> "", exists |-> FALSE, view |-> "none", fetch |-> 0,
             queue |-> <<>>, poll |-> 0]

\* what ak.stock_zh_a_hist_min_em and the processing after it end in
FetchOutcomes == {"bars", "empty", "raised"}

\* the dict fetch_data_async puts on result_queue
ResultOf(outcome) == [success |-> (outcome = "bars"), kind |-> outcome]

\* the registered window is taken to be open without asking Tk
StillRegistered(id) == id # 0
\* existing_window.window and existing_window.window.winfo_exists()
StillOpen(id) == id # 0 /\ win[id].exists

\* KLineWindow.__init__: create_window, the fetch thread, check_result (which
\* finds the queue empty or not at its first poll)
NewWindow(key) == [key |-> key, exists |-> TRUE, view |-> "loading", fetch |-> 1,
                   queue |-> <<>>, poll |-> 1]

\* show_k_line with the stock of `key` selected.  A failing constructor
\* (the except branch) is not drawn.
show_k_line(key) ==
    /\ IF StillOpen(kline_windows[key])
       THEN /\ focused' = kline_windows[key]
            /\ UNCHANGED <<kline_windows, win, nextWin, status_label>>
       ELSE /\ nextWin < MaxWindows
            /\ nextWin' = nextWin + 1
            /\ win' = [win EXCEPT ![nextWin + 1] = NewWindow(key)]
            /\ kline_windows' = [kline_windows EXCEPT ![key] = nextWin + 1]
            /\ status_label' = "kline_opened"
            /\ UNCHANGED focused
    /\ widgetWrites' = widgetWrites \cup {ByUI("status_label")}
    /\ UNCHANGED <<guiVars, auxVars, dbVars, runVars, procVars>>

\* fetch_data_async on its thread: exactly one put, whatever happens
FetchReturn(w) ==
    /\ win[w].fetch > 0
    /\ \E outcome \in FetchOutcomes :
          win' = [win EXCEPT ![w].fetch = @ - 1,
                             ![w].queue = Append(@, ResultOf(outcome))]
    /\ UNCHANGED <<guiVars, auxVars, appVars, kline_windows, nextWin, focused>>

\* the result is drawn as a chart whatever it says
ViewAlwaysChart(result, drawn) == "chart"
\* what check_result leaves on screen for a result: display_chart draws the
\* chart, or catches its own failure and calls show_error
ViewAfter(result, drawn) ==
    IF result.success /\ drawn THEN "chart" ELSE "error"

\* check_result, run by the 100 ms timer of the window (destroying the window
\* deletes the timer's callback).  With the queue empty it re-arms the timer.
check_result(w) ==
    /\ win[w].poll > 0
    /\ win[w].exists
    /\ IF win[w].queue # <<>>
       THEN \E drawn \in BOOLEAN :
               win' = [win EXCEPT ![w].queue = Tail(@),
                                  ![w].poll = @ - 1,
                                  ![w].view = ViewAfter(Head(win[w].queue), drawn)]
       ELSE UNCHANGED win
    /\ UNCHANGED <<guiVars, auxVars, appVars, kline_windows, nextWin, focused>>

\* the retry button can be clicked in every open window
RetryAlways(w) == win[w].exists
\* the retry button is a child of the error panel show_error builds
RetryEnabled(w) == win[w].exists /\ win[w].view = "error"

\* the retry button of the error panel: the panel is destroyed, a fetch thread
\* is started, and check_result polls at once (the queue is empty: it arms
\* the timer; a result already there is taken)
retry_fetch(w) ==
    /\ RetryEnabled(w)
    /\ IF win[w].queue = <<>>
       THEN win' = [win EXCEPT ![w].view = "loading", ![w].fetch = @ + 1, ![w].poll = @ + 1]
       ELSE \E drawn \in BOOLEAN :
               win' = [win EXCEPT ![w].fetch = @ + 1,
                                  ![w].queue = Tail(@),
                                  ![w].view = ViewAfter(Head(win[w].queue), drawn)]
    /\ UNCHANGED <<guiVars, auxVars, appVars, kline_windows, nextWin, focused>>

on_window_close(w) ==
    /\ win[w].exists
    /\ win' = [win EXCEPT ![w].exists = FALSE, ![w].view = "closed", ![w].poll = 0]
    /\ UNCHANGED <<guiVars, auxVars, appVars, kline_windows, nextWin, focused>>

\* periodic_cleanup, every Config.CLEANUP_INTERVAL ms
cleanup_closed_windows ==
    /\ kline_windows' = [k \in Keys |->
                            IF StillOpen(kline_windows[k]) THEN kline_windows[k] ELSE 0]
    /\ UNCHANGED <<guiVars, auxVars, appVars, win, nextWin, focused>>

KLineNext ==
    \/ \E k \in Keys : show_k_line(k)
    \/ \E w \in Windows : FetchReturn(w)
    \/ \E w \in Windows : check_result(w)
    \/ \E w \in Windows : retry_fetch(w)
    \/ \E w \in Windows : on_window_close(w)
    \/ cleanup_closed_windows

\* ---------------------------------------------------------------- utils.py
\* A string is a sequence of one-character strings.
DigitChars == {"0", "1", "2", "3", "4", "5", "6", "7", "8", "9"}
WhiteChars == {" "}
\* the characters the mixed inputs are made of: digits, a letter, a blank
MixChars == {"0", "6", "a", " "}

\* str.isdigit(): false for the empty string
isdigit(s) == Len(s) > 0 /\ \A i \in 1..Len(s) : s[i] \in DigitChars

\* s[:n]
Slice(s, n) == SubSeq(s, 1, IF n < Len(s) THEN n ELSE Len(s))

\* the string is returned as it is
NoFill(s, n) == s
\* str.zfill(n) of a string without sign
zfill(s, n) == IF Len(s) >= n THEN s ELSE [i \in 1..(n - Len(s)) |-> "0"] \o s

\* str.strip()
RECURSIVE lstrip(_)
lstrip(s) == IF s # <<>> /\ Head(s) \in WhiteChars THEN lstrip(Tail(s)) ELSE s
RECURSIVE rstrip(_)
rstrip(s) ==
    IF s # <<>> /\ s[Len(s)] \in WhiteChars THEN rstrip(SubSeq(s, 1, Len(s) - 1)) ELSE s
strip(s) == rstrip(lstrip(s))

\* utils.get_stock_info.  x is [str, chars]: whether the argument is a str, and
\* its characters.  Boards: BSE 北交所, SH_MAIN 沪市主板, STAR 科创板, SZ_MAIN
\* 深市主板, CHINEXT 创业板, SZ_B 深市B股, SH_B 沪市B股, OTHER 其他板块, NON_DIGIT
\* 非数字代码.
utils_get_stock_info(x) ==
    IF ~x.str \/ ~isdigit(x.chars) THEN <<"unknown", "NON_DIGIT">>
    ELSE LET stock_code == x.chars
             code == IF Len(stock_code) < 7 THEN zfill(stock_code, 6) ELSE stock_code
             prefix2 == Slice(code, 2)
             prefix3 == Slice(code, 3)
         IN  IF prefix3 = <<"9", "2", "0">> THEN <<"bj", "BSE">>
             ELSE IF prefix3 \in {<<"6", "0", "0">>, <<"6", "0", "1">>, <<"6", "0", "3">>,
                                  <<"6", "0", "5">>} THEN <<"sh", "SH_MAIN">>
             ELSE IF prefix3 = <<"6", "8", "8">> THEN <<"sh", "STAR">>
             ELSE IF prefix3 \in {<<"0", "0", "0">>, <<"0", "0", "1">>, <<"0", "0", "2">>,
                                  <<"0", "0", "3">>, <<"0", "0", "4">>} THEN <<"sz", "SZ_MAIN">>
             ELSE IF prefix3 \in {<<"3", "0", "0">>, <<"3", "0", "1">>} THEN <<"sz", "CHINEXT">>
             ELSE IF prefix2 = <<"2", "0">> THEN <<"sz", "SZ_B">>
             ELSE IF prefix3 = <<"9", "0", "0">> THEN <<"sh", "SH_B">>
             ELSE IF prefix3 \in {<<"4", "3", "0">>} \cup {<<"8", "3", d>> : d \in DigitChars \ {"0"}}
                  THEN <<"bj", "BSE">>
             ELSE IF prefix3 \in {<<"4", "0", "0">>, <<"4", "3", "0">>, <<"8", "3", "0">>}
                  THEN <<"bj", "BSE">>
             ELSE IF prefix2 = <<"8", "7">> THEN <<"bj", "BSE">>
             ELSE IF prefix2 = <<"8", "3">> THEN <<"bj", "BSE">>
             ELSE IF code[1] = "8" /\ prefix3 # <<"9", "2", "0">> THEN <<"bj", "BSE">>
             ELSE <<"unknown", "OTHER">>

\* utils.validate_stock_code
validate_stock_code(x) ==
    IF x.chars = <<>> \/ ~x.str THEN FALSE
    ELSE LET code == strip(x.chars)
         IN  IF ~isdigit(code) THEN FALSE
             ELSE IF Len(code) < 3 \/ Len(code) > 6 THEN FALSE
             ELSE TRUE

\* ----------------------------------------------------------- trading date
\* An instant is [day, minute]: a day number (day 0 is a Monday) and the
\* minute of the day.
\* main.py:228  market_open_time 09:30
MarketOpenMinute == 570
\* datetime.weekday(): 0 Monday .. 6 Sunday
weekday(day) == day % 7

\* while target_date.weekday() > 4: target_date -= 1 day
RECURSIVE SkipWeekend(_)
SkipWeekend(target_date) ==
    IF weekday(target_date) > 4 THEN SkipWeekend(target_date - 1) ELSE target_date

\* 09:30 itself still counts as before the opening
TradingDateOpenInclusive(now) ==
    SkipWeekend(IF now.minute <= MarketOpenMinute THEN now.day - 1 ELSE now.day)
\* Utils.get_trading_date (the date of the datetime it returns)
get_trading_date(now) ==
    SkipWeekend(IF now.minute < MarketOpenMinute THEN now.day - 1 ELSE now.day)

\* chart_window.py:131  the same computation in fetch_data_async
KLineOpenMinute == 570
\* KLineWindow.fetch_data_async: target_date, formatted as `today`
fetch_data_async_date(now) ==
    SkipWeekend(IF now.minute < KLineOpenMinute THEN now.day - 1 ELSE now.day)

\* ------------------------------------------------- the helpers' inputs
\* the six-digit codes of every three-digit prefix, and the shorter codes
\* that padding turns into every prefix 0dd and 00d
PrefixCodes ==
    {<<a, b, c, "0", "0", "1">> : a \in DigitChars, b \in DigitChars, c \in DigitChars}
        \cup {<<b, c, "0", "0", "1">> : b \in DigitChars, c \in DigitChars}
        \cup {<<c, "0", "0", "1">> : c \in DigitChars}
\* the strings over MixChars of length up to n
RECURSIVE MixStrings(_)
MixStrings(n) ==
    IF n = 0 THEN {<<>>}
    ELSE LET shorter == MixStrings(n - 1)
         IN  shorter \cup {Append(t, ch) : t \in {u \in shorter : Len(u) = n - 1}, ch \in MixChars}
\* seven characters, and the examples of the specification
LongCodes == {<<"0", "0", "0", "0", "0", "0", "1">>, <<"6", "0", "0", "0", "0", "0", "0">>,
              <<"6", "0", "0", "0", "0", "a">>, <<" ", "6", "0", "0", "0", "0", "0">>,
              <<"0", "0", "0", " ", "0", "1">>, <<"8", "3", "0", "0", "0", "0", "1">>}
CodeInputs ==
    {[kind |-> "code", str |-> TRUE, chars |-> cs] :
        cs \in PrefixCodes \cup MixStrings(MaxMix) \cup LongCodes}
        \cup {[kind |-> "code", str |-> FALSE, chars |-> <<"6", "0", "0", "0", "0", "0">>]}
\* the minutes of the day around the opening, and both ends of the day
Minutes == {0, MarketOpenMinute - 1, MarketOpenMinute, MarketOpenMinute + 1, 1439}
NowInputs == {[kind |-> "now", day |-> d, minute |-> m] : d \in 7..(7 + MaxDay), m \in Minutes}

NoCall == [fn |-> "none", arg |-> [kind |-> "none"], ret |-> <<>>]

\* the characters of a string as Utils.get_stock_info above reads them: the
\* value of a digit, -1 for any other character
DigitOf(ch) ==
    IF ch \in DigitChars
    THEN CHOOSE d \in 0..9 : ch = <<"0", "1", "2", "3", "4", "5", "6", "7", "8", "9">>[d + 1]
    ELSE -1
\* Utils.get_stock_info of main.py applied to the argument x = [str, chars]
Utils_get_stock_info(x) ==
    IF ~x.str THEN <<"unknown", "NON_DIGIT">>
    ELSE get_stock_info([i \in 1..Len(x.chars) |-> DigitOf(x.chars[i])])

GetStockInfo ==
    /\ call.arg.kind = "code"
    /\ call' = [call EXCEPT !.fn = "get_stock_info", !.ret = utils_get_stock_info(call.arg)]
    /\ UNCHANGED <<guiVars, appVars, kVars, cfgVars, aiVars>>

UtilsGetStockInfo ==
    /\ call.arg.kind = "code"
    /\ call' = [call EXCEPT !.fn = "Utils.get_stock_info", !.ret = Utils_get_stock_info(call.arg)]
    /\ UNCHANGED <<guiVars, appVars, kVars, cfgVars, aiVars>>

ValidateStockCode ==
    /\ call.arg.kind = "code"
    /\ call' = [call EXCEPT !.fn = "validate_stock_code", !.ret = validate_stock_code(call.arg)]
    /\ UNCHANGED <<guiVars, appVars, kVars, cfgVars, aiVars>>

GetTradingDate ==
    /\ call.arg.kind = "now"
    /\ call' = [call EXCEPT !.fn = "get_trading_date", !.ret = get_trading_date(call.arg)]
    /\ UNCHANGED <<guiVars, appVars, kVars, cfgVars, aiVars>>

FetchDataAsyncDate ==
    /\ call.arg.kind = "now"
    /\ call' = [call EXCEPT !.fn = "fetch_data_async", !.ret = fetch_data_async_date(call.arg)]
    /\ UNCHANGED <<guiVars, appVars, kVars, cfgVars, aiVars>>

UtilsNext ==
    \/ GetStockInfo
    \/ UtilsGetStockInfo
    \/ ValidateStockCode
    \/ GetTradingDate
    \/ FetchDataAsyncDate

\* -------------------------------------------------------- config_manager.py
\* config_manager.py:18  DEFAULT_API_KEY
DEFAULT_API_KEY == "sk-xxxxxxxxxxxxxxxxxxxxxxxxxxxxxxxx"
\* a key the service accepts
LiveKey == "sk-live"
\* config.get("api_key") of a document without the key
NoKey == "<None>"
ApiKeys == {DEFAULT_API_KEY, LiveKey, NoKey}
\* config_manager.py:14  DEFAULT_ANNOUNCEMENTS (the single disclaimer)
DEFAULT_ANNOUNCEMENTS == <<"disclaimer">>

\* the announcement lists given to save_announcements and found in the file
RECURSIVE ListsUpTo(_)
ListsUpTo(n) ==
    IF n = 0 THEN {<<>>}
    ELSE LET shorter == ListsUpTo(n - 1)
         IN  shorter \cup {Append(t, a) : t \in {u \in shorter : Len(u) = n - 1},
                                          a \in {"notice_a", "notice_b"}}
AnnLists == ListsUpTo(MaxAnn) \cup {DEFAULT_ANNOUNCEMENTS}

\* a document: the announcements key (present or not, and its list) and api_key
Document(present, list, key) ==
    [state |-> "ok", announcements |-> [present |-> present, list |-> list], api_key |-> key]
MissingFile == [state |-> "missing", announcements |-> [present |-> FALSE, list |-> <<>>],
                api_key |-> NoKey]
\* a file that json.load rejects: truncated or half written
GarbledFile == [state |-> "garbled", announcements |-> [present |-> FALSE, list |-> <<>>],
                api_key |-> NoKey]
ConfigFiles ==
    {MissingFile, GarbledFile}
        \cup {Document(TRUE, l, k) : l \in AnnLists, k \in ApiKeys}
        \cup {Document(FALSE, <<>>, k) : k \in ApiKeys}

\* open(CONFIG_FILE, 'w') and json.dump: both succeed; open raises and the
\* file is as it was; the write raises after open has truncated the file
FileWriteOutcomes == {"ok", "open_error", "dump_error"}

\* ensure_config_file
ensure_config_file(file, write) ==
    IF file.state = "missing"
    THEN IF write = "ok" THEN Document(TRUE, DEFAULT_ANNOUNCEMENTS, DEFAULT_API_KEY)
         ELSE IF write = "dump_error" THEN GarbledFile
         ELSE file
    ELSE file

\* load_api_key
load_api_key(file) == IF file.state = "ok" THEN file.api_key ELSE DEFAULT_API_KEY

\* load_announcements: config.get("announcements", DEFAULT_ANNOUNCEMENTS)
load_announcements(file) ==
    IF file.state = "ok"
    THEN IF file.announcements.present THEN file.announcements.list
         ELSE DEFAULT_ANNOUNCEMENTS
    ELSE DEFAULT_ANNOUNCEMENTS

\* save_announcements: [file, ret], the file afterwards and the value returned
save_announcements(file, announcements, write) ==
    IF file.state = "garbled" THEN [file |-> file, ret |-> FALSE]
    ELSE LET config == IF file.state = "missing" THEN Document(FALSE, <<>>, NoKey) ELSE file
             updated == [config EXCEPT !.announcements = [present |-> TRUE,
                                                          list |-> announcements]]
         IN  IF write = "ok" THEN [file |-> updated, ret |-> TRUE]
             ELSE IF write = "dump_error" THEN [file |-> GarbledFile, ret |-> FALSE]
             ELSE [file |-> file, ret |-> FALSE]

\* reset_announcements
reset_announcements(file, write) == save_announcements(file, DEFAULT_ANNOUNCEMENTS, write)

NoCfgCall == [fn |-> "none", ret |-> <<>>]

EnsureConfigFile ==
    /\ \E write \in FileWriteOutcomes :
          config_file' = ensure_config_file(config_file, write)
    /\ cfg_last' = [fn |-> "ensure_config_file", ret |-> <<>>]
    /\ UNCHANGED <<guiVars, appVars, kVars, call, aiVars>>

LoadApiKey ==
    /\ cfg_last' = [fn |-> "load_api_key", ret |-> load_api_key(config_file)]
    /\ UNCHANGED <<guiVars, appVars, kVars, call, aiVars, config_file>>

LoadAnnouncements ==
    /\ cfg_last' = [fn |-> "load_announcements", ret |-> load_announcements(config_file)]
    /\ UNCHANGED <<guiVars, appVars, kVars, call, aiVars, config_file>>

SaveAnnouncements ==
    /\ \E announcements \in AnnLists, write \in FileWriteOutcomes :
          LET r == save_announcements(config_file, announcements, write)
          IN  /\ config_file' = r.file
              /\ cfg_last' = [fn |-> "save_announcements", ret |-> r.ret]
    /\ UNCHANGED <<guiVars, appVars, kVars, call, aiVars>>

ResetAnnouncements ==
    /\ \E write \in FileWriteOutcomes :
          LET r == reset_announcements(config_file, write)
          IN  /\ config_file' = r.file
              /\ cfg_last' = [fn |-> "reset_announcements", ret |-> r.ret]
    /\ UNCHANGED <<guiVars, appVars, kVars, call, aiVars>>

ConfigNext ==
    \/ EnsureConfigFile
    \/ LoadApiKey
    \/ LoadAnnouncements
    \/ SaveAnnouncements
    \/ ResetAnnouncements

\* ------------------------------------------------------------ ai_service.py
\* the messages the functions return in place of a diagnosis
\* ai_service.py:43  "AI服务暂不可用，请检查API配置"
ServiceUnavailable == <<"AI_SERVICE_UNAVAILABLE_CHECK_API_CONFIG">>
\* ai_service.py:86  f"AI诊股服务暂时不可用：{str(e)}"
DiagnoseError(e) == <<"AI_DIAGNOSIS_TEMPORARILY_UNAVAILABLE", e>>
\* ai_service.py:154  f"AI诊股过程中出现错误：{str(e)}"
StreamError(e) == <<"AI_DIAGNOSIS_ERROR", e>>

\* OpenAI(api_key=..., base_url=...): the constructor does not contact the
\* service; it raises when the package cannot be imported or rejects its
\* arguments
ConstructOutcomes == {"ok", "raises"}
\* client.chat.completions.create: the service answers only a key it accepts
RemoteOutcomes(key) ==
    IF key = LiveKey THEN {"ok", "rejected", "unreachable"} ELSE {"rejected", "unreachable"}

\* lazy_init_openai_client: the client afterwards
lazy_init_openai_client(cl, construct) ==
    IF cl = "none" THEN (IF construct = "ok" THEN "built" ELSE "none") ELSE cl

\* chunk.choices[0].delta.content: None, or a text (a sequence of characters,
\* the empty text included); a delta is a set of at most one text
Deltas == {None, {<<>>}, {<<"x">>}, {<<"y", "z">>}}
RECURSIVE StreamsUpTo(_)
StreamsUpTo(n) ==
    IF n = 0 THEN {<<>>}
    ELSE LET shorter == StreamsUpTo(n - 1)
         IN  shorter \cup {Append(t, d) : t \in {u \in shorter : Len(u) = n - 1}, d \in Deltas}
Streams == StreamsUpTo(MaxDeltas)

\* only a delta with a non-empty text counts
HasText(delta) == delta # None /\ delta # {<<>>}
\* chunk.choices[0].delta.content is not None
HasContent(delta) == delta # None
ContentOf(delta) == CHOOSE t \in delta : TRUE

\* the for loop over the whole response: full_response
RECURSIVE Collect(_)
Collect(deltas) ==
    IF deltas = <<>> THEN <<>>
    ELSE (IF HasContent(Head(deltas)) THEN ContentOf(Head(deltas)) ELSE <<>>)
             \o Collect(Tail(deltas))

NoAI == [fn |-> "none", pc |-> "idle", callback |-> FALSE, opened |-> FALSE,
         failed |-> FALSE, deltas |-> <<>>, pos |-> 0, full_response |-> <<>>,
         chunks |-> <<>>, ret |-> <<>>, valid |-> FALSE]

\* validate_api_key
ValidateApiKey ==
    /\ ai.pc # "streaming"
    /\ \E construct \in ConstructOutcomes, remote \in RemoteOutcomes(load_api_key(config_file)) :
          /\ client' = lazy_init_openai_client(client, construct)
          /\ ai' = [NoAI EXCEPT !.fn = "validate_api_key", !.pc = "returned",
                                !.valid = (client' # "none" /\ remote = "ok")]
    /\ UNCHANGED <<guiVars, appVars, kVars, call, cfgVars>>

\* diagnose_stock
DiagnoseStock ==
    /\ ai.pc # "streaming"
    /\ \E construct \in ConstructOutcomes, remote \in RemoteOutcomes(load_api_key(config_file)) :
          /\ client' = lazy_init_openai_client(client, construct)
          /\ LET done == [NoAI EXCEPT !.fn = "diagnose_stock", !.pc = "returned"]
             IN  IF client' = "none"
                 THEN ai' = [done EXCEPT !.ret = ServiceUnavailable]
                 ELSE IF remote # "ok"
                 THEN ai' = [done EXCEPT !.failed = TRUE, !.ret = DiagnoseError(remote)]
                 ELSE \/ ai' = [done EXCEPT !.opened = TRUE, !.failed = TRUE,
                                            !.ret = DiagnoseError("stream")]
                      \/ \E deltas \in Streams :
                            ai' = [done EXCEPT !.opened = TRUE, !.deltas = deltas,
                                               !.ret = Collect(deltas)]
    /\ UNCHANGED <<guiVars, appVars, kVars, call, cfgVars>>

\* stream_stock_diagnosis up to the creation of the stream
StreamStart ==
    /\ ai.pc # "streaming"
    /\ \E construct \in ConstructOutcomes, remote \in RemoteOutcomes(load_api_key(config_file)),
          callback \in BOOLEAN :
          /\ client' = lazy_init_openai_client(client, construct)
          /\ LET msg == IF client' = "none" THEN ServiceUnavailable ELSE StreamError(remote)
                 begun == [NoAI EXCEPT !.fn = "stream_stock_diagnosis", !.callback = callback]
             IN  IF client' # "none" /\ remote = "ok"
                 THEN \E deltas \in Streams :
                         ai' = [begun EXCEPT !.pc = "streaming", !.opened = TRUE,
                                             !.deltas = deltas]
                 ELSE ai' = [begun EXCEPT !.pc = "returned",
                                          !.failed = (client' # "none"),
                                          !.chunks = IF callback THEN <<msg>> ELSE <<>>,
                                          !.ret = msg]
    /\ UNCHANGED <<guiVars, appVars, kVars, call, cfgVars>>

\* one iteration of `for chunk in response`, or the stream raising
StreamChunk ==
    /\ ai.pc = "streaming"
    /\ ai.pos < Len(ai.deltas)
    /\ LET delta == ai.deltas[ai.pos + 1]
       IN  \/ /\ HasContent(delta)
              /\ ai' = [ai EXCEPT !.pos = @ + 1,
                                  !.full_response = @ \o ContentOf(delta),
                                  !.chunks = IF ai.callback THEN Append(@, ContentOf(delta))
                                             ELSE @]
           \/ /\ ~HasContent(delta)
              /\ ai' = [ai EXCEPT !.pos = @ + 1]
           \/ ai' = [ai EXCEPT !.pc = "returned", !.failed = TRUE,
                               !.chunks = IF ai.callback THEN Append(@, StreamError("stream"))
                                          ELSE @,
                               !.ret = StreamError("stream")]
    /\ UNCHANGED <<guiVars, appVars, kVars, call, cfgVars, client>>

\* the stream is exhausted: return full_response
StreamReturn ==
    /\ ai.pc = "streaming"
    /\ ai.pos = Len(ai.deltas)
    /\ ai' = [ai EXCEPT !.pc = "returned", !.ret = ai.full_response]
    /\ UNCHANGED <<guiVars, appVars, kVars, call, cfgVars, client>>

AINext == ValidateApiKey \/ DiagnoseStock \/ StreamStart \/ StreamChunk \/ StreamReturn

\* --------------------------------------------------- announcement bars
\* main.py's AnnouncementBar and ui_components.py's UIComponents are two
\* implementations of the bar; ann.impl says which one runs.
\* the three-item list of the rotation example
ThreeNotices == <<"notice_a", "notice_b", "notice_c">>
\* a line of the configuration text box that strip() empties
BlankLine == " "
\* the text of the configuration box, line by line
RECURSIVE TextsUpTo(_)
TextsUpTo(n) ==
    IF n = 0 THEN {<<>>}
    ELSE LET shorter == TextsUpTo(n - 1)
         IN  shorter \cup {Append(t, l) : t \in {u \in shorter : Len(u) = n - 1},
                                          l \in {"notice_a", "notice_b", BlankLine}}
TextInputs == TextsUpTo(MaxAnn)
\* [line.strip() for line in text.split("\n") if line.strip()]
IsNonBlank(line) == line # BlankLine
StrippedLines(text) == SelectSeq(text, IsNonBlank)

\* ConfigManager.load_config of main.py: the document, or the defaults
ConfigManager_load_config(file) ==
    IF file.state = "ok" THEN file
    ELSE Document(TRUE, DEFAULT_ANNOUNCEMENTS, DEFAULT_API_KEY)
\* ConfigManager.get_announcements of main.py
ConfigManager_get_announcements(file) ==
    LET config == ConfigManager_load_config(file)
        announcements == IF config.announcements.present THEN config.announcements.list
                         ELSE DEFAULT_ANNOUNCEMENTS
    IN  IF announcements # <<>> THEN announcements ELSE DEFAULT_ANNOUNCEMENTS
\* ConfigManager.save_announcements of main.py: [file, raised]; save_config
\* raises again what open or json.dump raised
ConfigManager_save_announcements(file, announcements, write) ==
    LET config == [ConfigManager_load_config(file) EXCEPT
                      !.announcements = [present |-> TRUE, list |-> announcements]]
    IN  IF write = "ok" THEN [file |-> config, raised |-> FALSE]
        ELSE IF write = "dump_error" THEN [file |-> GarbledFile, raised |-> TRUE]
        ELSE [file |-> file, raised |-> TRUE]

\* the rotation so far: the indices shown by the consecutive rotation ticks
\* since the list was set or a button was clicked, the last n + 1 of them
Rotated(rotation, idx, n) ==
    LET r == Append(rotation, idx)
    IN  IF Len(r) > n + 1 THEN Tail(r) ELSE r

\* the index stays on the last item
AdvanceNoWrap(idx, n) == IF idx + 1 < n THEN idx + 1 ELSE idx
\* main.py:854  (self.current_announcement_idx + 1) % len(self.announcements)
Advance(idx, n) == (idx + 1) % n
\* ui_components.py:164  (idx + direction) % len(self.announcements)
change_index(idx, direction, n) == (idx + direction) % n
\* the index is left where it was
IndexKept(idx) == idx
\* ui_components.py:242, 256 and main.py:915  self.current_announcement_idx = 0
IndexAfterSave(idx) == 0

\* announcements[idx] as the text of the label: an index beyond the list raises
\* IndexError before the label is configured, which keeps its text
ItemAt(announcements, idx, label) ==
    IF idx \in 0..(Len(announcements) - 1) THEN announcements[idx + 1] ELSE label

Event(op, outcome, reloads) == [op |-> op, outcome |-> outcome, reloads |-> reloads]
NoEvent == Event("none", "none", 0)

\* AnnouncementBar.__init__: the list is read, the index is 0, and
\* start_announcement_loop has run update_announcement once
NewAnnouncementBar(file) ==
    LET announcements == ConfigManager_get_announcements(file)
    IN  [impl |-> "AnnouncementBar",
         announcements |-> announcements,
         current_announcement_idx |-> Advance(0, Len(announcements)),
         announcement_label |-> announcements[1],
         rotation |-> <<0>>]
\* UIComponents after initialize_main_ui: the list is read, the label still
\* shows its placeholder
NewUIComponents(file) ==
    [impl |-> "UIComponents",
     announcements |-> load_announcements(file),
     current_announcement_idx |-> 0,
     announcement_label |-> "loading",
     rotation |-> <<>>]

\* start_announcement_loop.update_announcement, every 8000 ms
BarUpdateAnnouncement ==
    /\ ann.impl = "AnnouncementBar"
    /\ IF ann.announcements # <<>>
       THEN ann' = [ann EXCEPT
                       !.announcement_label = ItemAt(ann.announcements,
                                                       ann.current_announcement_idx, @),
                       !.current_announcement_idx = Advance(@, Len(ann.announcements)),
                       !.rotation = Rotated(@, ann.current_announcement_idx,
                                            Len(ann.announcements))]
       ELSE UNCHANGED ann
    /\ event' = Event("tick", "done", 0)
    /\ UNCHANGED <<appVars, kVars, auxVars, panelVars, tableVars, last_load>>

\* configure_announcements.save_announcements of the AnnouncementBar
BarSaveAnnouncements ==
    /\ ann.impl = "AnnouncementBar"
    /\ \E text \in TextInputs, write \in FileWriteOutcomes :
          LET announcements == StrippedLines(text)
              r == ConfigManager_save_announcements(config_file, announcements, write)
          IN  IF announcements = <<>>
              THEN /\ event' = Event("save", "rejected_empty", 0)
                   /\ UNCHANGED <<ann, config_file>>
              ELSE /\ config_file' = r.file
                   /\ IF r.raised
                      THEN /\ event' = Event("save", "failed", 0)
                           /\ UNCHANGED ann
                      ELSE /\ event' = Event("save", "accepted", 0)
                           /\ ann' = [ann EXCEPT !.announcements = announcements,
                                                 !.current_announcement_idx = IndexAfterSave(@),
                                                 !.rotation = <<>>]
    /\ UNCHANGED <<appVars, kVars, call, cfg_last, aiVars, panelVars, tableVars, last_load>>

\* UIComponents.change_announcement(direction) followed by
\* update_announcement_display, as the record afterwards
Changed(a, direction) ==
    IF a.announcements = <<>> THEN a
    ELSE LET idx == change_index(a.current_announcement_idx, direction, Len(a.announcements))
         IN  [a EXCEPT !.current_announcement_idx = idx,
                       !.announcement_label = ItemAt(a.announcements, idx, @)]

\* the previous and next buttons
change_announcement(direction) ==
    /\ ann.impl = "UIComponents"
    /\ ann' = [Changed(ann, direction) EXCEPT !.rotation = <<>>]
    /\ event' = Event(IF direction = 1 THEN "next" ELSE "prev", "done", 0)
    /\ UNCHANGED <<appVars, kVars, auxVars, panelVars, tableVars, last_load>>

\* UIComponents.update_announcement, every 15000 ms
update_announcement ==
    /\ ann.impl = "UIComponents"
    /\ IF ann.announcements # <<>>
       THEN LET a == Changed(ann, 1)
            IN  ann' = [a EXCEPT !.rotation = Rotated(@, a.current_announcement_idx,
                                                      Len(a.announcements))]
       ELSE UNCHANGED ann
    /\ event' = Event("tick", "done", 0)
    /\ UNCHANGED <<appVars, kVars, auxVars, panelVars, tableVars, last_load>>

\* UIComponents.save_announcements_from_ui
save_announcements_from_ui ==
    /\ ann.impl = "UIComponents"
    /\ \E text \in TextInputs, write \in FileWriteOutcomes :
          LET new_announcements == StrippedLines(text)
              r == save_announcements(config_file, new_announcements, write)
          IN  IF new_announcements = <<>>
              THEN /\ event' = Event("save", "rejected_empty", 0)
                   /\ UNCHANGED <<ann, config_file>>
              ELSE /\ config_file' = r.file
                   /\ IF r.ret
                      THEN /\ event' = Event("save", "accepted", 0)
                           /\ ann' = [ann EXCEPT
                                         !.announcements = new_announcements,
                                         !.current_announcement_idx = IndexAfterSave(@),
                                         !.announcement_label =
                                             ItemAt(new_announcements, IndexAfterSave(
                                                 ann.current_announcement_idx), @),
                                         !.rotation = <<>>]
                      ELSE /\ event' = Event("save", "failed", 0)
                           /\ UNCHANGED ann
    /\ UNCHANGED <<appVars, kVars, call, cfg_last, aiVars, panelVars, tableVars, last_load>>

\* UIComponents.reset_announcements_ui: the question answered yes or no
reset_announcements_ui ==
    /\ ann.impl = "UIComponents"
    /\ \E yes \in BOOLEAN, write \in FileWriteOutcomes :
          LET r == reset_announcements(config_file, write)
              loaded == load_announcements(r.file)
          IN  IF ~yes
              THEN /\ event' = Event("reset", "declined", 0)
                   /\ UNCHANGED <<ann, config_file>>
              ELSE /\ config_file' = r.file
                   /\ IF r.ret
                      THEN /\ event' = Event("reset", "accepted", 0)
                           /\ ann' = [ann EXCEPT
                                         !.announcements = loaded,
                                         !.current_announcement_idx = 0,
                                         !.announcement_label = ItemAt(loaded, 0, @),
                                         !.rotation = <<>>]
                      ELSE /\ event' = Event("reset", "failed", 0)
                           /\ UNCHANGED ann
    /\ UNCHANGED <<appVars, kVars, call, cfg_last, aiVars, panelVars, tableVars, last_load>>

AnnNext ==
    \/ BarUpdateAnnouncement
    \/ BarSaveAnnouncements
    \/ \E direction \in {-1, 1} : change_announcement(direction)
    \/ update_announcement
    \/ save_announcements_from_ui
    \/ reset_announcements_ui

\* C21: while the list of n >= 1 items is not edited, the rotation ticks show
\* the items cyclically in list order: every tick shows the item after the one
\* shown by the tick before (the first after the last), the label carries the
\* item of the last tick, and the item shown n ticks after an item is that
\* item again.
C21_CyclicRotation ==
    LET r == ann.rotation
        n == Len(ann.announcements)
    IN  r # <<>> =>
          /\ n >= 1
          /\ \A j \in 1..Len(r) : r[j] \in 0..(n - 1)
          /\ \A j \in 1..(Len(r) - 1) : r[j + 1] = (r[j] + 1) % n
          /\ Len(r) = n + 1 => r[n + 1] = r[1]
          /\ ann.announcement_label = ann.announcements[r[Len(r)] + 1]
\* three ticks after the first of three items was shown it is shown again
C21_Witness ==
    /\ ann.impl = "AnnouncementBar"
    /\ ann.announcements = ThreeNotices
    /\ ann.rotation = <<0, 1, 2, 0>>
    /\ ann.announcement_label = "notice_a"

\* C30: whenever the list is non-empty the index is within 0 .. length-1; an
\* accepted save or reset sets the index to 0 together with the new list, the
\* one now in the config file; a save rejected as empty changes neither the
\* list in memory, the index, nor the config file.
C30_IndexInRange ==
    /\ [](ann.announcements # <<>> =>
            ann.current_announcement_idx \in 0..(Len(ann.announcements) - 1))
    /\ [][/\ (event'.op \in {"save", "reset"} /\ event'.outcome = "accepted") =>
               /\ ann'.current_announcement_idx = 0
               /\ ann'.announcements # <<>>
               /\ config_file'.state = "ok"
               /\ config_file'.announcements.list = ann'.announcements
          /\ (event'.op = "save" /\ event'.outcome = "rejected_empty") =>
               /\ ann' = ann
               /\ config_file' = config_file]_vars
\* a save of one line accepted by UIComponents: the list, the index, the label
\* and the file afterwards
C30_Witness ==
    /\ ann.impl = "UIComponents"
    /\ event = Event("save", "accepted", 0)
    /\ ann.announcements = <<"notice_b">>
    /\ ann.current_announcement_idx = 0
    /\ ann.announcement_label = "notice_b"
    /\ config_file.announcements.list = <<"notice_b">>

\* ------------------------------------------------------------- DataTable
\* main.py:1204  rotation_chars, by the names of the six glyphs
rotation_chars == <<"arrow_cw", "arrow_ccw", "half_left", "half_right",
                    "half_bottom", "half_top">>
\* char_index of animate
char_index(angle) == (angle \div SectorAngle) % Len(rotation_chars)

Min(a, b) == IF a < b THEN a ELSE b

\* animate: the glyph of the current angle is shown, the angle advances, the
\* timer is armed again
Animated ==
    /\ loading_icon' = rotation_chars[char_index(animation_angle) + 1]
    /\ animation_angle' = (animation_angle + AngleStep) % FullTurn
    /\ loading_animation_id' = TRUE

\* show_loading: the overlay is placed; start_loading_animation runs animate
\* once, which arms a timer of its own
show_loading ==
    /\ loading' = TRUE
    /\ Animated
    /\ anim_timers' = anim_timers + 1

\* the overlay is removed, the animation timer is left running
hide_without_stop ==
    /\ loading' = FALSE
    /\ UNCHANGED <<anim_timers, loading_animation_id, loading_icon, animation_angle>>
\* hide_loading: the overlay is removed; stop_loading_animation cancels the
\* timer whose id is stored, if one is stored
hide_loading ==
    /\ loading' = FALSE
    /\ IF loading_animation_id
       THEN anim_timers' = anim_timers - 1 /\ loading_animation_id' = FALSE
       ELSE UNCHANGED <<anim_timers, loading_animation_id>>
    /\ UNCHANGED <<loading_icon, animation_angle>>

\* a pending grid timer
Timer(kind, df, start) ==
    [kind |-> kind, df |-> df, start |-> start,
     delay |-> IF kind = "content" THEN ContentDelay ELSE BatchDelay]

\* update_data(df): the overlay, and _update_table_content in 10 ms.  `calls`
\* is the number of update_data calls of the harness so far; the update is
\* overlapped when a timer of an earlier update, of the grid or of the
\* animation, is still pending, and over a batch when a batch timer is.
update_data(df, calls) ==
    /\ Len(timers) < MaxPending
    /\ anim_timers < MaxChains
    /\ show_loading
    /\ timers' = Append(timers, Timer("content", df, 0))
    /\ upd' = [calls |-> calls, df |-> df, batches |-> <<>>,
               overlapped |-> (timers # <<>> \/ anim_timers > 0),
               over_batch |-> (\E k \in 1..Len(timers) : timers[k].kind = "batch"),
               raised |-> FALSE]
    /\ UNCHANGED tree

\* the timers without the k-th
Without(k) == SubSeq(timers, 1, k - 1) \o SubSeq(timers, k + 1, Len(timers))
\* Tk runs the timers in the order they fall due: the k-th can run when every
\* timer armed before it has a longer delay
Due(k) ==
    /\ k \in 1..Len(timers)
    /\ \A j \in 1..(k - 1) : timers[j].delay > timers[k].delay

\* how an insertion step ends: every row of the batch is inserted, or the step
\* raises before any row, after half of the batch, or after all of it
StepOutcomes == {"ok", "raised_first", "raised_half", "raised_last"}

\* _insert_data_batch(df, start_index) run on the grid `rows`, as the k-th
\* timer's callback or from _update_table_content
insert_data_batch(k, rows, df, start_index, outcome) ==
    LET end_index == Min(start_index + BATCH_SIZE, Len(df))
        done == IF outcome \in {"ok", "raised_last"} THEN end_index
                ELSE IF outcome = "raised_first" THEN start_index
                ELSE start_index + (end_index - start_index) \div 2
    IN  /\ tree' = rows \o SubSeq(df, start_index + 1, done)
        /\ upd' = [upd EXCEPT !.batches = Append(@, done - start_index),
                              !.raised = @ \/ outcome # "ok"]
        /\ IF outcome = "ok" /\ end_index < Len(df)
           THEN /\ timers' = Append(Without(k), Timer("batch", df, end_index))
                /\ UNCHANGED <<loading, loading_icon, animation_angle,
                               loading_animation_id, anim_timers>>
           ELSE /\ timers' = Without(k)          \* _finish_table_update, or except
                /\ hide_loading

\* _update_table_content(df), 10 ms after update_data: the grid is emptied,
\* the columns are set, the first batch is inserted; when the part before the
\* insertion raises, the overlay is hidden
update_table_content(k) ==
    /\ Due(k)
    /\ timers[k].kind = "content"
    /\ \/ \E outcome \in StepOutcomes :
             insert_data_batch(k, <<>>, timers[k].df, 0, outcome)
       \/ /\ tree' = <<>>
          /\ timers' = Without(k)
          /\ upd' = [upd EXCEPT !.raised = TRUE]
          /\ hide_loading
    /\ event' = Event("content", "done", 0)
    /\ UNCHANGED <<appVars, kVars, auxVars, ann, panelVars, last_load>>

\* _insert_data_batch(df, end_index), 20 ms after the batch before it
insert_next_batch(k) ==
    /\ Due(k)
    /\ timers[k].kind = "batch"
    /\ \E outcome \in StepOutcomes :
          insert_data_batch(k, tree, timers[k].df, timers[k].start, outcome)
    /\ event' = Event("batch", "done", 0)
    /\ UNCHANGED <<appVars, kVars, auxVars, ann, panelVars, last_load>>

\* animate, 100 ms after the animate before it
animate ==
    /\ anim_timers > 0
    /\ Animated
    /\ event' = Event("animate", "done", 0)
    /\ UNCHANGED <<appVars, kVars, auxVars, ann, panelVars, last_load,
                   tree, loading, anim_timers, timers, upd>>

\* the frame of n rows of the u-th update of the harness
Frame(u, n) == [i \in 1..n |-> <<u, i>>]
\* the sizes of the frames: none, one row, a full batch, one row more, and
\* MaxBatches full batches and one row
RowCounts == {0, 1, BATCH_SIZE, BATCH_SIZE + 1, MaxBatches * BATCH_SIZE + 1}

\* the harness calls update_data with a frame
UpdateData ==
    /\ upd.calls < MaxUpdates
    /\ \E n \in RowCounts : update_data(Frame(upd.calls + 1, n), upd.calls + 1)
    /\ event' = Event("update_data", "done", 0)
    /\ UNCHANGED <<appVars, kVars, auxVars, ann, panelVars, last_load>>

\* the harness calls update_data when no timer of an earlier update is pending
UpdateDataIdle ==
    /\ timers = <<>>
    /\ anim_timers = 0
    /\ UpdateData

\* updates one at a time
SingleNext ==
    \/ UpdateDataIdle
    \/ \E k \in 1..MaxPending : update_table_content(k)
    \/ \E k \in 1..MaxPending : insert_next_batch(k)
    \/ animate

\* updates at any time
TableNext ==
    \/ UpdateData
    \/ \E k \in 1..MaxPending : update_table_content(k)
    \/ \E k \in 1..MaxPending : insert_next_batch(k)
    \/ animate

RECURSIVE SumSeq(_)
SumSeq(q) == IF q = <<>> THEN 0 ELSE Head(q) + SumSeq(Tail(q))
\* the batches of an update that inserted at least one row
RowBatches == SelectSeq(upd.batches, LAMBDA b : b > 0)
\* the content timer of the update has not fired yet
ContentPending == \E k \in 1..Len(timers) : timers[k].kind = "content"
\* an update was started, and no timer of an earlier one was pending then
SingleUpdate == upd.calls >= 1 /\ ~upd.overlapped

\* C24: an update of N rows that no other update overlaps inserts the rows in
\* batches of at most BATCH_SIZE, each in a timer step of its own, every row
\* once and in order; the overlay is shown from the start until the last batch;
\* when no step raises there are ceil(N / BATCH_SIZE) batches and the grid
\* holds the N rows; the update always ends, with the overlay hidden and no
\* animation timer left, also when a step raises.
C24_BatchedUpdate ==
    /\ [](SingleUpdate =>
            LET N == Len(upd.df)
                inserted == SumSeq(upd.batches)
            IN  /\ \A j \in 1..Len(upd.batches) : upd.batches[j] <= BATCH_SIZE
                /\ ContentPending => upd.batches = <<>> /\ Len(timers) = 1
                /\ ~ContentPending => tree = SubSeq(upd.df, 1, inserted)
                /\ timers # <<>> => /\ loading
                                    /\ anim_timers = 1
                                    /\ ~upd.raised
                /\ (timers # <<>> /\ ~ContentPending) =>
                        /\ Len(timers) = 1
                        /\ timers[1].start = inserted
                        /\ inserted = BATCH_SIZE * Len(upd.batches)
                        /\ inserted < N
                /\ timers = <<>> =>
                        /\ ~loading
                        /\ anim_timers = 0
                        /\ ~loading_animation_id
                        /\ ~upd.raised =>
                               /\ tree = upd.df
                               /\ Len(RowBatches) = (N + BATCH_SIZE - 1) \div BATCH_SIZE)
    /\ (SingleUpdate /\ timers # <<>>) ~> (timers = <<>> \/ ~SingleUpdate)
\* an update of two full batches and one row has ended in three batches
C24_Witness ==
    /\ SingleUpdate
    /\ timers = <<>>
    /\ ~upd.raised
    /\ upd.batches = <<BATCH_SIZE, BATCH_SIZE, 1>>
    /\ tree = Frame(upd.calls, MaxBatches * BATCH_SIZE + 1)
    /\ ~loading
\* an update of a batch and one row ended by a raise in the middle of its
\* second batch
C24_WitnessRaise ==
    /\ SingleUpdate
    /\ timers = <<>>
    /\ upd.raised
    /\ Len(upd.df) = MaxBatches * BATCH_SIZE + 1
    /\ upd.batches = <<BATCH_SIZE, BATCH_SIZE \div 2>>
    /\ ~loading
    /\ anim_timers = 0

\* C25: every tick of the animation shows the glyph after the one shown before
\* it, so that two consecutive ticks never show the same glyph.
C25_GlyphAdvances ==
    [][event'.op = "animate" =>
         \E i \in 1..Len(rotation_chars) :
             /\ loading_icon = rotation_chars[i]
             /\ loading_icon' = rotation_chars[(i % Len(rotation_chars)) + 1]]_vars

\* C26: when update_data was called while a batch timer of an earlier update
\* was pending, then once all grid timers have fired (and no step raised) the
\* grid holds the rows of the latest update, each once, the overlay is hidden
\* and no animation timer is scheduled.
C26_LatestUpdateWins ==
    (upd.calls >= 2 /\ upd.over_batch /\ ~upd.raised /\ timers = <<>>) =>
        /\ tree = upd.df
        /\ ~loading
        /\ anim_timers = 0

\* ------------------------------------------- ControlPanel, load_data
RECURSIVE OrderBy(_)
\* ORDER BY total_amount DESC (the default sort column)
OrderBy(rows) ==
    IF rows = {} THEN <<>>
    ELSE LET top == CHOOSE r \in rows : \A q \in rows : r.total_amount >= q.total_amount
         IN  <<top>> \o OrderBy(rows \ {top})

NoLoad == [called |-> FALSE, raised |-> FALSE, rows |-> <<>>]

\* load_data() run by `thread` for the handler `op` on the day tables, with
\* the filter parameters of the control panel: the query; a non-empty result
\* becomes current_df and is handed to the grid; an empty one only changes the
\* status line; an exception of the query is caught and reported.  On the
\* refresh thread fetch_data then writes its own final status.
load_data(op, thread, ticks, snap, min_amount, max_market_cap) ==
    LET full_df == load_filtered_data(ticks, snap, min_amount, max_market_cap)
        shown == IF full_df.raised THEN {"status_label"}
                 ELSE IF full_df.rows # {} THEN {"status_label", "data_table"}
                 ELSE {"status_label"}
    IN  /\ event' = Event(op, "done", 1)
        /\ last_load' = [called |-> TRUE, raised |-> full_df.raised,
                         rows |-> OrderBy(full_df.rows)]
        /\ widgetWrites' = widgetWrites \cup {[widget |-> w, by |-> thread] : w \in shown}
        /\ status_label' = IF thread = "worker" THEN "done_ok"
                           ELSE IF full_df.raised THEN "load_failed"
                           ELSE IF full_df.rows # {} THEN "loaded"
                           ELSE "no_match"
        /\ IF ~full_df.raised /\ full_df.rows # {}
           THEN /\ current_df' = full_df.rows
                /\ update_data(OrderBy(full_df.rows), upd.calls)
           ELSE UNCHANGED <<current_df, tableVars>>

\* the value goes below zero
NoFloor(value) == value
\* max(0, current + delta)
Floor(value) == IF value > 0 THEN value ELSE 0

\* ControlPanel._adjust_amount(delta), then _trigger_data_reload (load_data)
adjust_amount(delta) ==
    LET new_value == Floor(amount_var + delta)
    IN  /\ new_value <= DefaultMinAmount + MaxPlus * AmountStep
        /\ amount_var' = new_value
        /\ load_data(IF delta > 0 THEN "amount_plus" ELSE "amount_minus", "ui",
                     ticksTbl, snapTbl, new_value, market_cap_var)
        /\ UNCHANGED <<kVars, auxVars, ann, dbVars, pc, batch, procVars, market_cap_var>>

\* ControlPanel._adjust_market_cap(delta), then _trigger_data_reload
adjust_market_cap(delta) ==
    LET new_value == Floor(market_cap_var + delta)
    IN  /\ new_value <= DefaultMaxMarketCap + MaxPlus * MarketCapStep
        /\ market_cap_var' = new_value
        /\ load_data(IF delta > 0 THEN "cap_plus" ELSE "cap_minus", "ui",
                     ticksTbl, snapTbl, amount_var, new_value)
        /\ UNCHANGED <<kVars, auxVars, ann, dbVars, pc, batch, procVars, amount_var>>

\* ControlPanel._on_sort_change: another sort column is selected
on_sort_change ==
    /\ load_data("sort", "ui", ticksTbl, snapTbl, amount_var, market_cap_var)
    /\ UNCHANGED <<kVars, auxVars, ann, dbVars, pc, batch, procVars, panelVars>>

\* the day tables a finished refresh run leaves: ticks of 25,009,000 for
\* 000001 (cap 2000), or ticks of 600000 (cap 2001), each with its snapshot
RefreshedTables ==
    { [ticks |-> Table(SetToBag({[code |-> Code000001, amount |-> 25009000]})),
       snap |-> Table(SetToBag({RowOf(Code000001)}))],
      [ticks |-> Table(SetToBag({[code |-> Code600000, amount |-> 150000]})),
       snap |-> Table(SetToBag({RowOf(Code600000)}))] }

\* the end of a refresh run: fetch_data has rewritten both day tables and
\* calls load_data on its thread.  A run fetches from the network and takes
\* longer than the 10 and 20 ms of the grid's timers, so none is pending from
\* the reload before it.
refresh_reload ==
    /\ timers = <<>>
    /\ \E t \in RefreshedTables :
          /\ ticksTbl' = t.ticks
          /\ snapTbl' = t.snap
          /\ load_data("refresh", "worker", t.ticks, t.snap, amount_var, market_cap_var)
    /\ UNCHANGED <<kVars, auxVars, ann, pc, batch, procVars, panelVars>>

\* C23: from the defaults, the minimum amount stays a non-negative multiple of
\* 200 and the maximum market cap a non-negative multiple of 50; a + click adds
\* one step, a - click subtracts one step unless the value is 0, which stays 0;
\* every click runs load_data once.
C23_StepsAndFloor ==
    /\ [](/\ amount_var >= 0 /\ amount_var % AmountStep = 0
          /\ market_cap_var >= 0 /\ market_cap_var % MarketCapStep = 0)
    /\ [][/\ event'.op = "amount_plus" =>
                amount_var' = amount_var + AmountStep /\ market_cap_var' = market_cap_var
          /\ event'.op = "amount_minus" =>
                /\ amount_var' = IF amount_var = 0 THEN 0 ELSE amount_var - AmountStep
                /\ market_cap_var' = market_cap_var
          /\ event'.op = "cap_plus" =>
                market_cap_var' = market_cap_var + MarketCapStep /\ amount_var' = amount_var
          /\ event'.op = "cap_minus" =>
                /\ market_cap_var' = IF market_cap_var = 0 THEN 0
                                     ELSE market_cap_var - MarketCapStep
                /\ amount_var' = amount_var
          /\ event'.op \in {"amount_plus", "amount_minus", "cap_plus", "cap_minus"} =>
                /\ event'.reloads = 1
                /\ last_load'.called]_vars
\* both values at 0 after a - click on the market cap at 0
C23_Witness ==
    /\ amount_var = 0
    /\ market_cap_var = 0
    /\ event = Event("cap_minus", "done", 1)
    /\ last_load.called

\* C22: when a reload has finished (the query did not raise, no grid timer is
\* pending, no insertion step raised) the grid shows exactly the rows of the
\* most recent query result, none when the result is empty.
C22_GridShowsLastResult ==
    (last_load.called /\ ~last_load.raised /\ timers = <<>> /\ ~upd.raised) =>
        tree = last_load.rows

PanelNext ==
    \/ \E delta \in {-AmountStep, AmountStep} : adjust_amount(delta)
    \/ \E delta \in {-MarketCapStep, MarketCapStep} : adjust_market_cap(delta)
    \/ on_sort_change

GridNext ==
    \/ \E delta \in {-AmountStep, AmountStep} : adjust_amount(delta)
    \/ on_sort_change
    \/ refresh_reload
    \/ \E k \in 1..MaxPending : update_table_content(k)

\* ----------------------------------------------------------- specifications
KInit ==
    /\ kline_windows = [k \in Keys |-> 0]
    /\ win = [w \in Windows |-> NoWindow]
    /\ nextWin = 0
    /\ focused = 0

ProcInit ==
    /\ ppc = [c \in Calls |-> "none"]
    /\ stock_list = [c \in Calls |-> <<>>]
    /\ task = [c \in Calls |-> <<>>]
    /\ results = [c \in Calls |-> EmptyBag]
    /\ callbacks = [c \in Calls |-> <<>>]
    /\ processed_count = 0
    /\ failed_count = 0
    /\ lock = Free

\* the application after start-up: no day table yet, the main window built
AppInit ==
    /\ ticksTbl = NoTable
    /\ snapTbl = NoTable
    /\ pc = "idle"
    /\ batch = EmptyBag
    /\ current_df = {}
    /\ status_label = "ready"
    /\ widgetWrites = {ByUI("status_label")}
    /\ ProcInit
    /\ KInit

\* no helper call made; config.json as ensure_config_file creates it at
\* start-up; the AI client not built
CallInit == call = NoCall
\* the announcement bar built from the config file; the control panel at its
\* defaults; the grid empty, its overlay hidden; nothing loaded yet
PanelInit == amount_var = DefaultMinAmount /\ market_cap_var = DefaultMaxMarketCap
TableInit ==
    /\ tree = <<>>
    /\ loading = FALSE
    /\ loading_icon = rotation_chars[1]
    /\ animation_angle = 0
    /\ loading_animation_id = FALSE
    /\ anim_timers = 0
    /\ timers = <<>>
    /\ upd = [calls |-> 0, df |-> <<>>, batches |-> <<>>, overlapped |-> FALSE,
              over_batch |-> FALSE, raised |-> FALSE]
GuiInit ==
    /\ ann = NewAnnouncementBar(Document(TRUE, DEFAULT_ANNOUNCEMENTS, DEFAULT_API_KEY))
    /\ PanelInit
    /\ TableInit
    /\ last_load = NoLoad
    /\ event = NoEvent
CfgInit ==
    /\ config_file = Document(TRUE, DEFAULT_ANNOUNCEMENTS, DEFAULT_API_KEY)
    /\ cfg_last = NoCfgCall
AIInit == client = "none" /\ ai = NoAI

Init == AppInit /\ CallInit /\ CfgInit /\ AIInit /\ GuiInit

Next == PipelineNext \/ ProcessorNext

Spec == Init /\ [][Next]_vars

\* The processor alone: process() is called once with a list of 1..MaxStocks
\* stocks and a progress callback.
InitProc ==
    /\ ticksTbl = NoTable
    /\ snapTbl = NoTable
    /\ pc = "harness"
    /\ batch = EmptyBag
    /\ current_df = {}
    /\ status_label = "ready"
    /\ widgetWrites = {ByUI("status_label")}
    /\ \E n \in 1..MaxStocks :
          /\ stock_list = [c \in Calls |-> IF c = 1 THEN [i \in 1..n |-> SynthCode(i)] ELSE <<>>]
    /\ ppc = [c \in Calls |-> IF c = 1 THEN "called" ELSE "none"]
    /\ task = [c \in Calls |-> <<>>]
    /\ results = [c \in Calls |-> EmptyBag]
    /\ callbacks = [c \in Calls |-> <<>>]
    /\ processed_count = 0
    /\ failed_count = 0
    /\ lock = Free
    /\ KInit
    /\ CallInit /\ CfgInit /\ AIInit /\ GuiInit

SpecProc == InitProc /\ [][ProcessorNext]_vars

\* Two refresh runs overlap: the refresh button has started fetch_data on a
\* second thread while the first is enriching, and each thread calls process()
\* of the application's one StockDataProcessor with its own stock list.
InitOverlap ==
    /\ ticksTbl = NoTable
    /\ snapTbl = NoTable
    /\ pc = "harness"
    /\ batch = EmptyBag
    /\ current_df = {}
    /\ status_label = "ready"
    /\ widgetWrites = {ByUI("status_label")}
    /\ \E n1 \in 1..MaxOverlap, n2 \in 1..MaxOverlap :
          stock_list = [c \in Calls |-> IF c = 1 THEN [i \in 1..n1 |-> SynthCode(i)]
                                         ELSE IF c = 2 THEN [i \in 1..n2 |-> SynthCode(i)]
                                         ELSE <<>>]
    /\ ppc = [c \in Calls |-> IF c \in {1, 2} THEN "called" ELSE "none"]
    /\ task = [c \in Calls |-> <<>>]
    /\ results = [c \in Calls |-> EmptyBag]
    /\ callbacks = [c \in Calls |-> <<>>]
    /\ processed_count = 0
    /\ failed_count = 0
    /\ lock = Free
    /\ KInit
    /\ CallInit /\ CfgInit /\ AIInit /\ GuiInit

SpecOverlap == InitOverlap /\ [][ProcessorNext]_vars

\* The main window with its K-line windows: the user opens charts, closes
\* windows and retries; fetch threads return; timers fire.
SpecKLine == Init /\ [][KLineNext]_vars

\* The same with the scheduling the event loop and the feed give: a pending
\* 100 ms timer fires, a started fetch returns or raises.
KLineFairness ==
    \A w \in Windows : WF_vars(check_result(w)) /\ WF_vars(FetchReturn(w))

SpecKLineFair == Init /\ [][KLineNext]_vars /\ KLineFairness

\* The helpers of utils.py and the two trading-date computations, each
\* applied to an input.
InitUtils ==
    /\ AppInit /\ CfgInit /\ AIInit /\ GuiInit
    /\ \E a \in CodeInputs \cup NowInputs : call = [NoCall EXCEPT !.arg = a]

SpecUtils == InitUtils /\ [][UtilsNext]_vars

\* config_manager.py called in any order on any config.json
InitConfig ==
    /\ AppInit /\ CallInit /\ AIInit /\ GuiInit
    /\ config_file \in ConfigFiles
    /\ cfg_last = NoCfgCall

SpecConfig == InitConfig /\ [][ConfigNext]_vars

\* ai_service.py called in any order, on a config.json holding any key or
\* missing
InitAI ==
    /\ AppInit /\ CallInit /\ AIInit /\ GuiInit
    /\ config_file \in {MissingFile} \cup
                         {Document(TRUE, DEFAULT_ANNOUNCEMENTS, k) : k \in ApiKeys}
    /\ cfg_last = NoCfgCall

SpecAI == InitAI /\ [][AINext]_vars

\* An announcement bar of either implementation, built from any config.json:
\* rotation ticks, previous/next clicks, saves and resets in any order.
AnnFiles ==
    {MissingFile, GarbledFile, Document(FALSE, <<>>, DEFAULT_API_KEY),
     Document(TRUE, ThreeNotices, DEFAULT_API_KEY)}
        \cup {Document(TRUE, l, DEFAULT_API_KEY) : l \in AnnLists}
InitAnn ==
    /\ AppInit /\ CallInit /\ AIInit
    /\ config_file \in AnnFiles
    /\ cfg_last = NoCfgCall
    /\ ann \in {NewAnnouncementBar(config_file), NewUIComponents(config_file)}
    /\ PanelInit /\ TableInit
    /\ last_load = NoLoad
    /\ event = NoEvent

SpecAnn == InitAnn /\ [][AnnNext]_vars

\* The control panel after start-up, before any refresh: + and - clicks and
\* sort changes in any order.
SpecPanel == Init /\ [][PanelNext]_vars

\* The grid alone: update_data is called at any time with frames of several
\* sizes, the timers fire.
SpecTable == Init /\ [][TableNext]_vars

\* The grid with updates that do not overlap, and the scheduling of the event
\* loop: a pending timer fires.
TableFairness ==
    /\ \A k \in 1..MaxPending : WF_vars(update_table_content(k))
    /\ \A k \in 1..MaxPending : WF_vars(insert_next_batch(k))

SpecSingleFair == Init /\ [][SingleNext]_vars /\ TableFairness

\* The main window: clicks on the minimum amount, sort changes and ends of
\* refresh runs reload the grid, the timers fire.  The maximum market cap stays
\* at its default; the ticks of the loading animation, which change the icon
\* only, are followed in SpecTable, and so are the later batches: a result of these
\* tables fits one batch.
SpecGrid == Init /\ [][GridNext]_vars

\* =================================================================== claims
\* the run has got past save_stock_changes without an exception
TicksSaved ==
    \/ pc \in {"filter", "enrich", "reload"}
    \/ pc = "done" /\ status_label \in {"done_ok", "no_data"}

\* the run has returned after its enrichment step, no database write having raised
RunReturned == pc = "done" /\ status_label \in {"done_ok", "no_data"}

\* C1: after the save_stock_changes call of a run has returned, the day's tick
\* table holds exactly the rows of that run's feed pull (M rows, never N+M).
C1_TicksReplaced == TicksSaved => ticksTbl = Table(batch)

\* C2: after a run has returned, the tick table holds exactly the run's batch
\* and the snapshot table exactly the rows the run's enrichment returned,
\* whatever the enrichment returned (nothing included).
C2_RunSupersedes ==
    RunReturned => ticksTbl.rows = batch /\ snapTbl.rows = results[1]

\* C3: an enrichment call of the run has started only with the run's ticks
\* committed to the tick table; process() has returned only with no enrichment
\* call executing, so none runs when the snapshot write begins; the reload is
\* triggered only with the snapshot table written from the run's results.
C3_WriteOrder ==
    /\ (\E i \in Tasks(1) : task[1][i].st # "queued") /\ pc = "enrich"
          => ticksTbl.exists /\ batch \sqsubseteq ticksTbl.rows
    /\ InFlight(1) # {} => pc = "enrich" /\ ppc[1] = "running"
    /\ ppc[1] = "returned" => InFlight(1) = {} /\ AllDone(1)
    /\ pc = "reload" \/ (pc = "done" /\ status_label = "done_ok")
          => snapTbl = Table(results[1]) /\ ppc[1] = "returned"

\* C3 witness: the snapshot of a run with two enriched stocks is written and
\* the reload is about to be triggered
C3_Witness ==
    /\ pc = "reload"
    /\ BagCardinality(results[1]) = 2
    /\ snapTbl = Table(results[1])
    /\ ticksTbl = Table(batch)

\* C4: when process() has returned for n stocks of which k lookups failed,
\* every task has completed, n - k rows are returned, the failure counter is
\* k, and every returned row is the row of its stock.
C4_EnrichmentIsolation ==
    ppc[1] = "returned" =>
        LET n == Len(stock_list[1])
            k == Cardinality(FailedLookups(1))
        IN  /\ AllDone(1)
            /\ BagCardinality(results[1]) = n - k
            /\ failed_count = k
            /\ processed_count = n
            /\ \A i \in Tasks(1) :
                  IF i \in FailedLookups(1)
                  THEN CopiesIn(RowOf(stock_list[1][i]), results[1]) = 0
                  ELSE CopiesIn(RowOf(stock_list[1][i]), results[1]) = 1

\* C4 witness: a batch of three stocks, exactly one lookup failed
C4_Witness ==
    /\ ppc[1] = "returned"
    /\ Len(stock_list[1]) = 3
    /\ Cardinality(FailedLookups(1)) = 1
    /\ failed_count = 1
    /\ BagCardinality(results[1]) = 2

\* the processed values of the callbacks of call c
ProcessedAt(c) == [j \in 1..Len(callbacks[c]) |-> callbacks[c][j][1]]
\* completions whose critical section is over
Reported == IF lock = Free THEN processed_count ELSE processed_count - 1

\* C5: the callback has been invoked for exactly the processed values that are
\* multiples of 10 or equal to n, once each and in increasing order, with
\* total = n and the failure count of that moment; the last one is (n, n, failed).
C5_ProgressCallbacks ==
    ppc[1] \in {"running", "returned"} =>
        LET n == Len(stock_list[1])
            cb == callbacks[1]
        IN  /\ \A j \in 1..Len(cb) :
                  /\ ProgressDue(cb[j][1], n)
                  /\ cb[j][1] \in 1..n
                  /\ cb[j][2] = n
                  /\ cb[j][3] \in 0..cb[j][1]
            /\ \A j \in 1..(Len(cb) - 1) :
                  /\ cb[j][1] < cb[j + 1][1]
                  /\ cb[j + 1][1] - cb[j][1] <= ProgressEvery
                  /\ cb[j][3] <= cb[j + 1][3]
            /\ Len(cb) > 0 => cb[1][1] <= ProgressEvery
            /\ \A m \in 1..Reported :
                  (m % ProgressEvery = 0 \/ m = n)
                      => \E j \in 1..Len(cb) : cb[j][1] = m
            /\ ppc[1] = "returned" /\ n > 0 => cb[Len(cb)] = <<n, n, failed_count>>

\* C5 witness: 11 stocks, callbacks at 10 and at 11
C5_Witness ==
    /\ ppc[1] = "returned"
    /\ Len(stock_list[1]) = 11
    /\ ProcessedAt(1) = <<10, 11>>

\* C6: every widget mutation is made by the UI thread.
C6_WidgetsOnUIThread == \A w \in widgetWrites : w.by = "ui"

\* the example of the end-to-end scenario
ExampleTicks == SetToBag({[code |-> Code600000, amount |-> 150000],
                          [code |-> Code600000, amount |-> 250000]})

\* the total the query is to report for code c: the integer part of the sum
\* of the amounts of the code's ticks over 10,000
TickCount(c) == SumCopies(ticksTbl.rows, RowsOfCode(ticksTbl.rows, c))
AmountOf(c) == SumAmounts(ticksTbl.rows, RowsOfCode(ticksTbl.rows, c)) \div 10000
TickCodes == {t.code : t \in BagToSet(ticksTbl.rows)}
\* the codes with a snapshot row at or under the ceiling
UnderCeiling(max) == {s.code : s \in {x \in BagToSet(snapTbl.rows) : x.market_cap <= max}}

\* C9: the query returns a code only if its snapshot market cap is at most the
\* ceiling; of those codes it returns every one whose total is above the
\* floor and none whose total equals the floor; the total is that of all the
\* ticks of the code, whatever the single amounts.
C9_FilterThresholds ==
    ticksTbl.exists /\ snapTbl.exists =>
        \A min \in MinAmounts, max \in MaxMarketCaps :
            LET R == load_filtered_data(ticksTbl, snapTbl, min, max).rows
            IN  /\ \A r \in R : r.code \in UnderCeiling(max) /\ r.market_cap <= max
                /\ \A c \in TickCodes \cap UnderCeiling(max) :
                      /\ AmountOf(c) > min => \E r \in R : r.code = c
                      /\ AmountOf(c) <= min => ~\E r \in R : r.code = c
                /\ \A r \in R : r.total_amount = AmountOf(r.code) /\ r.total_amount > min

\* C9 witness: a run has written ticks of 15 and 25 (x 10,000) for 600000,
\* whose cap is 2001: the code is returned above the floor 30 at the ceiling
\* 2001, not at the floor 40, and not under the ceiling 2000
C9_Witness ==
    /\ RunReturned
    /\ ticksTbl = Table(ExampleTicks)
    /\ Code600000 \in UnderCeiling(2001)
    /\ {r.code : r \in load_filtered_data(ticksTbl, snapTbl, 30, 2001).rows} = {Code600000}
    /\ load_filtered_data(ticksTbl, snapTbl, 40, 2001).rows = {}
    /\ load_filtered_data(ticksTbl, snapTbl, 30, 2000).rows = {}

OpenWindowOf(k) ==
    IF \E w \in Windows : win[w].exists /\ win[w].key = k
    THEN CHOOSE w \in Windows : win[w].exists /\ win[w].key = k
    ELSE 0

C8_Channel ==
    /\ [](\A w \in Windows :
             /\ Len(win[w].queue) <= 1
             /\ win[w].fetch > 0 => win[w].queue = <<>>
             /\ win[w].exists /\ win[w].view = "loading" =>
                   win[w].poll > 0 /\ (win[w].fetch > 0 \/ Len(win[w].queue) = 1)
             /\ win[w].exists /\ win[w].view \in {"chart", "error"} =>
                   win[w].fetch = 0 /\ win[w].queue = <<>> /\ win[w].poll = 0)
    /\ [][\A w \in Windows :
             /\ win[w].fetch > 0 /\ win'[w].fetch = 0 =>
                   \E o \in FetchOutcomes :
                       /\ win'[w].queue = Append(win[w].queue, [success |-> o = "bars", kind |-> o])
                       /\ win'[w].view = win[w].view
             /\ Len(win'[w].queue) > Len(win[w].queue) =>
                   win[w].fetch > 0 /\ win'[w].fetch = 0
             /\ win[w].view = "loading" /\ win'[w].view \in {"chart", "error"} =>
                   win[w].queue # <<>> /\ win'[w].queue = Tail(win[w].queue)
             /\ win[w].view = "loading" /\ win'[w].view # "loading" =>
                   win'[w].view \in {"chart", "error", "closed"}
             /\ win[w].view = "error" /\ win'[w].view = "loading" =>
                   win'[w].fetch > 0 /\ win'[w].poll > 0 /\ win'[w].queue = <<>>
             /\ win[w].view = "chart" => win'[w].view \in {"chart", "closed"}]_vars
    /\ \A w \in Windows :
          (win[w].exists /\ win[w].view = "loading")
              ~> (~win[w].exists \/ win[w].view \in {"chart", "error"})

\* C8 as stated: with the above, a window that leaves the loading state shows
\* the chart when the result it took is a success and the error panel when it
\* is a failure.
C8_ChartOnSuccess ==
    /\ C8_Channel
    /\ [][\A w \in Windows :
             win[w].view = "loading" /\ win'[w].view \in {"chart", "error"} =>
                 win'[w].view = IF Head(win[w].queue).success THEN "chart" ELSE "error"]_vars

\* C8 amended: with the above, a window that leaves the loading state shows
\* the error panel when the result it took is a failure (an empty bar set
\* included), and the chart only when the result is a success; a success
\* ends on the chart or, the drawing having failed, on the error panel.
C8_FetchResultShown ==
    /\ C8_Channel
    /\ [][\A w \in Windows :
             win[w].view = "loading" /\ win'[w].view \in {"chart", "error"} =>
                 /\ ~Head(win[w].queue).success => win'[w].view = "error"
                 /\ win'[w].view = "chart" => Head(win[w].queue).success]_vars

\* C8 witness: one open window has drawn its chart, the other shows the error
\* panel, both results taken off their channels
C8_Witness ==
    /\ win[1].exists /\ win[1].view = "chart"
    /\ win[2].exists /\ win[2].view = "error"
    /\ win[1].queue = <<>> /\ win[2].queue = <<>>
    /\ win[2].fetch = 0

\* C11: with the tick table, the snapshot table or both absent, the
\* aggregation query returns an empty result and does not raise.
C11_AbsentTablesEmpty ==
    ~ticksTbl.exists \/ ~snapTbl.exists =>
        \A min \in MinAmounts, max \in MaxMarketCaps :
            LET r == load_filtered_data(ticksTbl, snapTbl, min, max)
            IN  ~r.raised /\ r.rows = {}

\* C12: save_stock_changes either returns with the table holding exactly the
\* batch, or raises with the table as it was; it never leaves the former rows
\* together with the batch.
C12_ClearFailurePropagates ==
    [][pc = "save_ticks" /\ pc' # "save_ticks" =>
          \/ pc' = "filter" /\ ticksTbl' = Table(batch)
          \/ pc' = "done" /\ status_label' = "error" /\ ticksTbl' = ticksTbl]_vars

\* C13: a run whose feed step fails ends at once with the error status, both
\* day tables and the grid as they were and no enrichment call made; and
\* once a run has ended nothing is written or called until the next run.
C13_FeedFailureAborts ==
    /\ [][pc = "feed" /\ pc' # "feed" /\ pc' # "save_ticks" =>
             /\ pc' = "done"
             /\ status_label' = "error"
             /\ ticksTbl' = ticksTbl /\ snapTbl' = snapTbl
             /\ current_df' = current_df
             /\ ppc'[1] = "none" /\ task'[1] = <<>> /\ stock_list'[1] = <<>>
             /\ processed_count' = processed_count /\ failed_count' = failed_count]_vars
    /\ [][pc = "done" /\ pc' = "done" =>
             /\ ticksTbl' = ticksTbl /\ snapTbl' = snapTbl
             /\ current_df' = current_df
             /\ ppc' = ppc /\ task' = task]_vars
    /\ [](pc = "feed" => ppc[1] = "none" /\ task[1] = <<>>)

\* C13 witness: after a run that wrote both tables and loaded the grid, a run
\* has ended in error with no enrichment call, the tables still written
C13_Witness ==
    /\ pc = "done"
    /\ status_label = "error"
    /\ ppc[1] = "none"
    /\ ticksTbl.exists /\ snapTbl.exists
    /\ current_df # {}
    /\ ByWorker("data_table") \in widgetWrites

\* the configured API key is the placeholder default
PlaceholderKey == config_file.state = "ok" /\ config_file.api_key = DEFAULT_API_KEY

\* C14: with the placeholder key configured, validate_api_key returns false
\* and diagnose_stock returns the fixed service-unavailable message, whatever
\* the construction of the client and the remote call do.
C14_PlaceholderUnavailable ==
    PlaceholderKey /\ ai.pc = "returned" =>
        /\ ai.fn = "validate_api_key" => ~ai.valid
        /\ ai.fn = "diagnose_stock" => ai.ret = ServiceUnavailable

\* the texts of the non-null deltas among the first n of a stream, in order
NonNullTexts(deltas, n) ==
    LET nn == SelectSeq(SubSeq(deltas, 1, n), LAMBDA d : d # {})
    IN  [i \in 1..Len(nn) |-> CHOOSE t \in nn[i] : TRUE]
RECURSIVE Concat(_)
Concat(texts) == IF texts = <<>> THEN <<>> ELSE Head(texts) \o Concat(Tail(texts))

\* C15: while stream_stock_diagnosis consumes a stream, and when it returns
\* from a stream that ended without error, the callback has been called with
\* exactly the texts of the non-null deltas read so far, in stream order, and
\* the text returned is the concatenation of those arguments.
C15_StreamChunks ==
    ai.fn = "stream_stock_diagnosis" /\ ai.opened /\ ai.callback /\ ~ai.failed =>
        /\ ai.chunks = NonNullTexts(ai.deltas, ai.pos)
        /\ ai.full_response = Concat(ai.chunks)
        /\ ai.pc = "returned" => ai.pos = Len(ai.deltas) /\ ai.ret = Concat(ai.chunks)

\* C15 witness: a stream of a text, a null delta and a second text has been
\* consumed and the call has returned
C15_Witness ==
    /\ ai.fn = "stream_stock_diagnosis"
    /\ ai.pc = "returned" /\ ai.callback /\ ~ai.failed
    /\ ai.deltas = <<{<<"x">>}, {}, {<<"y", "z">>}>>
    /\ ai.chunks = <<<<"x">>, <<"y", "z">>>>
    /\ ai.ret = <<"x", "y", "z">>

\* a non-empty string of decimal digits
AllDigits(cs) == cs # <<>> /\ \A i \in 1..Len(cs) : cs[i] \in DigitChars
LeftPad6(cs) == [i \in 1..(6 - Len(cs)) |-> "0"] \o cs
\* the eleven rules, in order, on a code of six digits
ElevenRules(code) ==
    LET p3 == SubSeq(code, 1, 3)
        p2 == SubSeq(code, 1, 2)
    IN  CASE p3 = <<"9", "2", "0">> -> <<"bj", "BSE">>
          [] p3 \in {<<"6", "0", d>> : d \in {"0", "1", "3", "5"}} -> <<"sh", "SH_MAIN">>
          [] p3 = <<"6", "8", "8">> -> <<"sh", "STAR">>
          [] p3 \in {<<"0", "0", d>> : d \in {"0", "1", "2", "3", "4"}} -> <<"sz", "SZ_MAIN">>
          [] p3 \in {<<"3", "0", d>> : d \in {"0", "1"}} -> <<"sz", "CHINEXT">>
          [] p2 = <<"2", "0">> -> <<"sz", "SZ_B">>
          [] p3 = <<"9", "0", "0">> -> <<"sh", "SH_B">>
          [] p3 \in {<<"4", "3", "0">>, <<"4", "0", "0">>}
                     \cup {<<"8", "3", d>> : d \in DigitChars} -> <<"bj", "BSE">>
          [] p2 \in {<<"8", "7">>, <<"8", "3">>} -> <<"bj", "BSE">>
          [] code[1] = "8" -> <<"bj", "BSE">>
          [] OTHER -> <<"unknown", "OTHER">>

C17_ValidateCode ==
    call.fn = "validate_stock_code" =>
        call.ret = (call.arg.str /\ AllDigits(call.arg.chars) /\ Len(call.arg.chars) \in 3..6)

\* C18: both computations give the latest Monday-to-Friday day that is not
\* after now's day when the time is 09:30 or later, and not after the day
\* before otherwise; it is no Saturday or Sunday, not after now's day and at
\* most 3 days before it.
C18_TradingDate ==
    call.fn \in {"get_trading_date", "fetch_data_async"} =>
        LET now == call.arg
            base == IF now.minute >= 9 * 60 + 30 THEN now.day ELSE now.day - 1
            r == call.ret
        IN  /\ r <= base
            /\ r % 7 \in 0..4
            /\ \A d \in (r + 1)..base : d % 7 \in {5, 6}
            /\ r <= now.day
            /\ now.day - r <= 3
            /\ get_trading_date(now) = r
            /\ fetch_data_async_date(now) = r

\* C18 witness: on a Monday at 09:29 the trading date is the Friday before
C18_Witness ==
    /\ call.fn = "get_trading_date"
    /\ call.arg.day % 7 = 0
    /\ call.arg.minute = 569
    /\ call.ret = call.arg.day - 3

\* C19: a call of ensure_config_file, save_announcements or
\* reset_announcements on a readable config file leaves it readable with the
\* api_key it had; ensure_config_file changes nothing; a save that returns
\* failure changes nothing.
C19_ApiKeyPreserved ==
    [][config_file.state = "ok" /\
       cfg_last'.fn \in {"ensure_config_file", "save_announcements", "reset_announcements"} =>
          /\ config_file'.state = "ok"
          /\ config_file'.api_key = config_file.api_key
          /\ cfg_last'.fn = "ensure_config_file" => config_file' = config_file
          /\ cfg_last'.fn # "ensure_config_file" /\ cfg_last'.ret = FALSE =>
                config_file' = config_file]_vars

\* C20: load_announcements returns the stored list when the file is readable
\* and the list is non-empty, and the default list otherwise; never an empty
\* list.
C20_LoadAnnouncements ==
    cfg_last.fn = "load_announcements" =>
        /\ cfg_last.ret # <<>>
        /\ cfg_last.ret = IF /\ config_file.state = "ok"
                             /\ config_file.announcements.present
                             /\ config_file.announcements.list # <<>>
                          THEN config_file.announcements.list
                          ELSE DEFAULT_ANNOUNCEMENTS

\* C29: utils.get_stock_info and Utils.get_stock_info of main.py return the
\* same (exchange, board) pair for every argument: digit strings of every
\* length, strings with other characters, the empty string and non-strings.
C29_SameClassification ==
    call.fn \in {"get_stock_info", "Utils.get_stock_info"} =>
        /\ utils_get_stock_info(call.arg) = Utils_get_stock_info(call.arg)
        /\ call.ret = utils_get_stock_info(call.arg)

\* C29 witness: main.py's function has classified 900001, which its Beijing
\* rules (tested first) let through to the Shanghai B rule (tested last by
\* utils.py)
C29_Witness ==
    /\ call.fn = "Utils.get_stock_info"
    /\ call.arg.str
    /\ call.arg.chars = <<"9", "0", "0", "0", "0", "1">>
    /\ call.ret = <<"sh", "SH_B">>

\* C27: for every process() call, also of two that overlap: each progress
\* callback is given 0 <= failed <= processed <= total, and when the call
\* returns the processed counter is the length of its list and the failure
\* counter is that length minus the number of rows it returns.
C27_CountersPerRun ==
    [][\A c \in Calls :
          LET n == Len(stock_list[c])
              cb == callbacks'[c]
          IN  /\ Len(cb) > Len(callbacks[c]) =>
                    /\ cb[Len(cb)][2] = n
                    /\ 0 <= cb[Len(cb)][3]
                    /\ cb[Len(cb)][3] <= cb[Len(cb)][1]
                    /\ cb[Len(cb)][1] <= n
              /\ ppc[c] = "running" /\ ppc'[c] = "returned" =>
                    /\ processed_count' = n
                    /\ failed_count' = n - BagCardinality(results'[c])]_vars

\* C28: every K-line window has at most one fetch thread in flight, at most
\* one poll timer pending and at most one result waiting; a closed window
\* has no timer; a result leaves the channel only by one poll that shows it
\* and arms no timer, and enters it only by the end of a fetch; a fetch is
\* started in an existing window only from the error panel; no timer is armed
\* for a closed window.
C28_OneFetchOnePoll ==
    /\ [](\A w \in Windows :
             /\ win[w].fetch \in {0, 1}
             /\ win[w].poll \in {0, 1}
             /\ Len(win[w].queue) + win[w].fetch <= 1
             /\ ~win[w].exists => win[w].poll = 0)
    /\ [][\A w \in Windows :
             /\ Len(win'[w].queue) < Len(win[w].queue) =>
                   /\ win'[w].queue = Tail(win[w].queue)
                   /\ win[w].exists /\ win[w].view = "loading"
                   /\ win'[w].view \in {"chart", "error"}
                   /\ win'[w].poll = 0
             /\ Len(win'[w].queue) > Len(win[w].queue) =>
                   /\ win'[w].fetch = win[w].fetch - 1
                   /\ Len(win'[w].queue) = Len(win[w].queue) + 1
             /\ win'[w].fetch > win[w].fetch /\ win[w].view # "none" =>
                   win[w].exists /\ win[w].view = "error"
             /\ win[w].view = "closed" =>
                   win'[w].poll = 0 /\ win'[w].fetch <= win[w].fetch]_vars

\* C28 witness: one window has taken its failed result and shows the error
\* panel, with no thread and no timer left; the other was closed while its
\* fetch ran, and the result put afterwards waits on the channel with no
\* timer to take it
C28_Witness ==
    \E w, v \in Windows :
        /\ win[w].exists /\ win[w].view = "error"
        /\ win[w].fetch = 0 /\ win[w].poll = 0 /\ win[w].queue = <<>>
        /\ win[v].view = "closed"
        /\ win[v].fetch = 0 /\ win[v].poll = 0 /\ Len(win[v].queue) = 1

====
